---- MODULE Spec2Model ----
(***************************************************************************)
(* A model of the rusher load-generation engine: the executors of          *)
(* src/src/executor.rs (Once, Constant, Shared, PerUser, RampingUser,      *)
(* RampingArrivalRate / ConstantArrivalRate) and the scenario runner of    *)
(* src/src/runner.rs.                                                      *)
(*                                                                         *)
(* One step of the model is one poll of a task: a task runs from one       *)
(* suspension point to the next.  A driver loop that gets the result of    *)
(* its operation therefore sends the outcome, evaluates its loop condition *)
(* and starts the next call in a single step, as the code does between two *)
(* awaits.  Every user operation suspends at least once.  Time is a        *)
(* discrete clock that may advance between any two steps.                  *)
(***************************************************************************)
EXTENDS Integers, Sequences, FiniteSets, TLC

\* ------------------------------------------------------------------ bounds
\* users, pre_allocate_users, max_users and stage targets range over 0..MaxUsers
MaxUsers == 2
MaxIterations == 2
\* durations and pacing windows range over 0..MaxDuration
MaxDuration == 1
MaxStages == 2
MaxRate == 2
\* scenarios of a run and executors of a scenario
MaxScenarios == 2
MaxExecutors == 2
MaxTasks == 2
MaxEvents == 2
MaxAmount == 2
\* observations of a histogram; the buffer is merged when it holds FlushLen
\* values (4096 in the code)
FlushLen == 2

Max2(a, b) == IF a >= b THEN a ELSE b
Min2(a, b) == IF a <= b THEN a ELSE b

\* The largest pool any configuration can build: the arrival-rate pool grows
\* by at most MaxRate from a size below max_users or from pre_allocate_users.
PoolCap == MaxUsers + MaxRate

UserIds == 1..PoolCap
ExecIds == 1..MaxExecutors
Outcome == {"Ok", "GenericError", "TerminationError"}
Kinds == {"Once", "Constant", "Shared", "PerUser", "RampingUser",
          "ConstantArrivalRate", "RampingArrivalRate"}
ArrivalKinds == {"ConstantArrivalRate", "RampingArrivalRate"}

VARIABLES
    kind,                  \* the DataExecutor variant
    cfg,                   \* its configuration (logical::Executor)
    clock,                 \* Instant::now()
    epc,                   \* position of the executor task
    users,                 \* users.len(): users built so far
    task,                  \* per user: the task driving it
    inflight,              \* per user: calls of user.call() not yet returned
    lock,                  \* per user: the tokio Mutex of the arrival-rate pool
    end_time,              \* deadline of the executor or of the current stage
    stage,                 \* index of the current stage (1-based)
    next_rate_check_time,  \* deadline of the current pacing window
    now,                   \* the `now` read once per window (executor.rs:438)
    current_rate,          \* operations started in the current window
    user_iter,             \* position of the cyclic iterator over the pool
    iterations_completed,  \* the AtomicUsize of SharedIterations
    iter_idx,              \* per user: the index of PerUser's for loop
    started,               \* history: iterations started
    completed,             \* history: iterations that returned
    spans,                 \* history: task spans opened
    chan,                  \* outcomes sent on the outcome channel, by kind
    pool_at_stage,         \* history: RampingUser's users.len() as each stage starts running
    cancelled              \* the executor task was dropped by its holder

exec_vars == <<kind, cfg, clock, epc, users, task, inflight, lock, end_time, stage,
               next_rate_check_time, now, current_rate, user_iter,
               iterations_completed, iter_idx, started, completed, spans, chan,
               pool_at_stage, cancelled>>

VARIABLES
    scenarios,             \* the runner's list of scenarios, each a list of executor plans
    rpc,                   \* position of Runner::run
    scenario_index,        \* the scenario of the for loop (1-based)
    executors,             \* per executor of the scenario: instantiated, spawned, ended, dropped
    x_task,                \* per executor: the task driving its user
    x_idx,                 \* per executor: the index of its driver's for loop
    scope,                 \* the runner's scope of executor tasks
    user_result_tx,        \* the runner still holds its sender (dropped at runner.rs:91)
    user_result_rx,        \* kinds of outcome waiting in the merged channel
    results,               \* kinds of outcome has_user_terminated has received
    has_user_terminated,   \* the value it returned
    runner_exit,           \* number of runner_exit events emitted
    store,                 \* per plan of the scenario: the initializers run on its data store
    scenario_span          \* id of the scenario span that is entered (0: none)

run_vars == <<scenarios, rpc, scenario_index, executors, x_task, x_idx, scope,
              user_result_tx, user_result_rx, results, has_user_terminated, runner_exit,
              store, scenario_span>>

VARIABLES
    inner,                 \* MetricSet.inner at one Counter key: <<>> or the value of its Counter
    upd_pc,                \* per task: position in MetricSet::update
    upd_value,             \* per task: event.value of the update in progress
    events,                \* per task: the updates it has still to issue
    added,                 \* sum of the amounts of the updates that have returned
    seen                   \* the value in the last snapshot taken with entries()

met_vars == <<inner, upd_pc, upd_value, events, added, seen>>

VARIABLES
    hist,                  \* Histogram.inner: (Option<TDigest>, Vec of values, sum)
    observed,              \* every value passed to Histogram::observe, in order
    hist_value             \* the percentiles of the last value(), <<>> once stale

hist_vars == <<hist, observed, hist_value>>

VARIABLES
    gauge_kind,            \* "scalar" (GaugeF64, GaugeI64, GaugeU64) or "duration"
    gauge,                 \* the atomics of the gauge: <<value, 0>> or <<secs, nanos>>
    set_pc,                \* per task: position in Metric::update of the gauge
    set_value,             \* per task: the value it is writing
    sets,                  \* the updates the tasks have still to issue
    get_pc,                \* position of the reader in Metric::value
    get_secs,              \* the seconds the reader has loaded
    gauge_value,           \* the last value returned by value(), <<>> before the first
    recent,                \* values of the returned sets that no later set followed
    written                \* every value a set has started to write

gauge_vars == <<gauge_kind, gauge, set_pc, set_value, sets, get_pc, get_secs, gauge_value,
                recent, written>>

VARIABLES
    app,                   \* App: current_scenario, current_exec, scenarios[s][e] task times
    tui_rx,                \* the events sent to run_app and not yet handled
    tui_pc,                \* run_app: "running", "returned" or "panicked"
    taken,                 \* the events run_app has handled, in order
    times                  \* per scenario and executor, the durations applied to it

tui_vars == <<app, tui_rx, tui_pc, taken, times>>

VARIABLES
    visit                  \* a TaskEvent being filled by tracing's visitor: the event
                           \* (attributes, value), as it was built, the fields, and how
                           \* many of them have been recorded

\* The state of the telemetry types and of the display consumer.
aux_vars == <<hist_vars, gauge_vars, tui_vars, visit>>

\* What the actions of one telemetry type or of the display leave unchanged.
hist_rest == <<exec_vars, run_vars, met_vars, gauge_vars, tui_vars, visit>>
gauge_rest == <<exec_vars, run_vars, met_vars, hist_vars, tui_vars, visit>>
tui_rest == <<exec_vars, run_vars, met_vars, hist_vars, gauge_vars, visit>>
visit_rest == <<exec_vars, run_vars, met_vars, hist_vars, gauge_vars, tui_vars>>

vars == <<exec_vars, run_vars, met_vars, aux_vars>>

\* ------------------------------------------------------- configurations
Stage(d, t, r, w) == [duration |-> d, target |-> t, rate |-> r, time_unit |-> w]

Config(u, i, d, p, m, s) ==
    [users |-> u, iterations |-> i, duration |-> d, pre_allocate_users |-> p,
     max_users |-> m, stages |-> s]

SeqsUpTo(S, n) == UNION {[1..k -> S] : k \in 1..n}

\* The stages of one configuration share their duration d and pacing window w;
\* the single stage of ConstantArrivalRate may last one unit longer, so that
\* it holds more than one window of positive length.
RampingUserStages(d) == {Stage(d, t, 0, 0) : t \in 0..MaxUsers}
ArrivalStages(d, w) == {Stage(d, 0, r, w) : r \in 0..MaxRate}

\* The arrival-rate profiles of the model ramp up: no stage lowers the rate.
RampsUp(q) == \A k \in 1..(Len(q) - 1) : q[k].rate <= q[k + 1].rate

Configs(k) ==
    CASE k = "Once" -> {Config(1, 0, 0, 0, 0, <<>>)}
      [] k = "Constant" -> {Config(u, 0, d, 0, 0, <<>>) : u \in 0..MaxUsers, d \in 0..MaxDuration}
      [] k = "Shared" -> {Config(u, i, d, 0, 0, <<>>) :
                             u \in 0..MaxUsers, i \in 0..MaxIterations, d \in 0..MaxDuration}
      [] k = "PerUser" -> {Config(u, i, 0, 0, 0, <<>>) : u \in 0..MaxUsers, i \in 0..MaxIterations}
      [] k = "RampingUser" ->
             UNION {{Config(0, 0, 0, p, 0, s) :
                        p \in 0..MaxUsers, s \in SeqsUpTo(RampingUserStages(d), MaxStages)} :
                    d \in 0..MaxDuration}
      [] k = "ConstantArrivalRate" ->
             UNION {{Config(0, 0, 0, p, m, <<s>>) :
                        p \in 0..MaxUsers, m \in 0..MaxUsers, s \in ArrivalStages(d, w)} :
                    d \in 0..(MaxDuration + 1), w \in 0..MaxDuration}
      [] k = "RampingArrivalRate" ->
             UNION {{Config(0, 0, 0, p, m, s) :
                        p \in 0..MaxUsers, m \in 0..MaxUsers,
                        s \in {q \in SeqsUpTo(ArrivalStages(d, w), MaxStages) : RampsUp(q)}} :
                    d \in 0..MaxDuration, w \in 0..MaxDuration}

\* ------------------------------------------------------------- helpers
\* The history counters count up to one more than an executor with a bounded
\* number of iterations can reach; Constant runs any number of iterations and
\* its counters saturate there; the staged executors keep none.
CountCap ==
    IF kind \in {"Once", "Constant", "Shared", "PerUser"}
    THEN cfg.users * Max2(cfg.iterations, 1) + 1
    ELSE 0

Inc(n) == IF n < CountCap THEN n + 1 ELSE n

Sum3(c) == c["Ok"] + c["GenericError"] + c["TerminationError"]
Sent == Sum3(chan)

\* A result that is not forwarded.
SendNothing(c, o) == c

\* tx.send(res): the outcome is added to the channel.
Send(c, o) == IF Sum3(c) < CountCap THEN [c EXCEPT ![o] = @ + 1] ELSE c

InFlightTotal(f) ==
    LET RECURSIVE S(_)
        S(n) == IF n = 0 THEN 0 ELSE f[n] + S(n - 1)
    IN S(PoolCap)

\* No task is left once a scope has been collected and dropped.
NoTasks == [u \in UserIds |-> "none"]

Running(u) == task[u] \in {"spawned", "call"}
\* A collect that does not wait for the tasks of its scope.
AllDoneNoWait == TRUE

\* scope.collect().await returns: no task of the scope is left running.
AllDone == \A u \in UserIds : ~Running(u)

\* build_users at construction: the variants that own a Vec of users.
BuiltAtNew(k, c) == IF k \in {"Once", "Constant", "Shared", "PerUser"} THEN c.users ELSE 0

NoExecutors == [e \in ExecIds |-> "none"]

TaskIds == 1..MaxTasks

\* No task is in MetricSet::update.
NoUpdates == [t \in TaskIds |-> "idle"]

\* Histogram::new(): no digest, an empty buffer, sum 0.
HistIdle ==
    /\ hist = [tdigest |-> <<>>, values |-> <<>>, sum |-> 0]
    /\ observed = <<>>
    /\ hist_value = <<>>

\* T::default() of the gauge's atomics; Duration::new(0, 0)
GaugeDefault == <<0, 0>>

\* Gauge::new(), no task using the gauge.
GaugeIdle ==
    /\ gauge_kind = "scalar"
    /\ gauge = GaugeDefault
    /\ set_pc = [t \in TaskIds |-> "idle"]
    /\ set_value = [t \in TaskIds |-> GaugeDefault]
    /\ sets = 0
    /\ get_pc = "idle"
    /\ get_secs = 0
    /\ gauge_value = <<>>
    /\ recent = {}
    /\ written = {}

\* ExecutorState::default()
DefaultExec == [task_min_time |-> 0, task_max_time |-> 0, task_total_time |-> 0]

\* The App built by tui::run: scenario s of the model has s executors.
NewApp ==
    [current_scenario |-> 0,
     current_exec |-> 0,
     scenarios |-> [s \in 1..MaxScenarios |-> [e \in 1..s |-> DefaultExec]]]

\* run_app before its first event.
TuiIdle ==
    /\ app = NewApp
    /\ tui_rx = <<>>
    /\ tui_pc = "running"
    /\ taken = <<>>
    /\ times = [s \in 1..MaxScenarios |-> [e \in 1..s |-> <<>>]]

\* TaskEvent::new(name, metric_type, attributes, value) of an event whose
\* fields are q.
NewEvent(attributes, value, q) ==
    [attributes |-> attributes, value |-> value,
     inherited |-> attributes, initial |-> value, fields |-> q, recorded |-> 0]

\* No event is being visited.
VisitIdle == visit = NewEvent(<<>>, <<"UnsignedNumber", 0>>, <<>>)

\* The telemetry types and the display consumer while another part is studied.
AuxIdle == HistIdle /\ GaugeIdle /\ TuiIdle /\ VisitIdle

\* The metric set while an executor or the runner is studied: empty, unused.
MetIdle ==
    /\ inner = <<>>
    /\ upd_pc = NoUpdates
    /\ upd_value = [t \in TaskIds |-> 0]
    /\ events = [t \in TaskIds |-> 0]
    /\ added = 0
    /\ seen = 0

\* RuntimeDataStore::default() for every plan
NoStores == [e \in ExecIds |-> <<>>]

\* The runner's variables while an executor is studied on its own.
RunIdle ==
    /\ scenarios = <<>>
    /\ rpc = "idle"
    /\ scenario_index = 0
    /\ executors = NoExecutors
    /\ x_task = [e \in ExecIds |-> "none"]
    /\ x_idx = [e \in ExecIds |-> 0]
    /\ scope = "none"
    /\ user_result_tx = FALSE
    /\ user_result_rx = {}
    /\ results = {}
    /\ has_user_terminated = FALSE
    /\ runner_exit = 0
    /\ store = NoStores
    /\ scenario_span = 0

ExecInit ==
    /\ RunIdle
    /\ MetIdle
    /\ AuxIdle
    /\ kind \in Kinds
    /\ cfg \in Configs(kind)
    /\ clock = 0
    /\ epc = "new"
    /\ users = BuiltAtNew(kind, cfg)
    /\ task = NoTasks
    /\ inflight = [u \in UserIds |-> 0]
    /\ lock = [u \in UserIds |-> FALSE]
    /\ end_time = 0
    /\ stage = 0
    /\ next_rate_check_time = 0
    /\ now = 0
    /\ current_rate = 0
    /\ user_iter = 1
    /\ iterations_completed = 0
    /\ iter_idx = [u \in UserIds |-> 0]
    /\ started = 0
    /\ completed = 0
    /\ spans = 0
    /\ chan = [o \in Outcome |-> 0]
    /\ pool_at_stage = <<>>
    /\ cancelled = FALSE

\* Time passes.  Instants are only compared with each other and new deadlines
\* are set relative to the clock, so once the clock is past every pending
\* deadline a later reading is the same reading; for the same reason the
\* origin of the clock is moved to the start of each stage.
Tick ==
    /\ clock <= end_time \/ clock < next_rate_check_time
    /\ clock' = clock + 1
    /\ UNCHANGED <<run_vars, met_vars, aux_vars, kind, cfg, epc, users, task, inflight, lock, end_time, stage,
                   next_rate_check_time, now, current_rate, user_iter,
                   iterations_completed, iter_idx, started, completed, spans, chan,
                   pool_at_stage, cancelled>>

\* One poll of the task driving user u: `fin` says that the call in flight
\* returned outcome o (its span closes and the outcome is sent), `beg` that
\* user.call() is called (again) inside a new task span.
Poll(u, fin, o, beg, next_state) ==
    /\ task' = [task EXCEPT ![u] = next_state]
    /\ inflight' = [inflight EXCEPT ![u] = @ - (IF fin THEN 1 ELSE 0) + (IF beg THEN 1 ELSE 0)]
    /\ completed' = IF fin THEN Inc(completed) ELSE completed
    /\ chan' = IF fin THEN Send(chan, o) ELSE chan
    /\ started' = IF beg THEN Inc(started) ELSE started
    /\ spans' = IF beg THEN Inc(spans) ELSE spans

\* scope.spawn_cancellable for each of the first n users.
SpawnDrivers(n) == [u \in UserIds |-> IF u <= n THEN "spawned" ELSE task[u]]

\* A driver loop's poll: the first one (fin = FALSE, from "spawned") or the one
\* in which the call in flight returns o (fin = TRUE); go is the loop condition.
Loop(u, fin, o, go) ==
    /\ task[u] = (IF fin THEN "call" ELSE "spawned")
    /\ Poll(u, fin, o, go, IF go THEN "call" ELSE "done")

\* ---------------------------------------------------------------- execute()
\* The deadline Constant and Shared compute when execute() is called.
Execute ==
    /\ epc = "new"
    /\ epc' = "ready"
    /\ end_time' = IF kind \in {"Constant", "Shared"} THEN clock + cfg.duration ELSE end_time
    /\ UNCHANGED <<run_vars, met_vars, aux_vars, kind, cfg, clock, users, task, inflight, lock, stage,
                   next_rate_check_time, now, current_rate, user_iter,
                   iterations_completed, iter_idx, started, completed, spans, chan,
                   pool_at_stage, cancelled>>

\* -------------------------------------------------------------------- Once
OnceTask ==
    /\ kind = "Once" /\ epc = "ready"
    /\ epc' = "collect"
    /\ Poll(1, FALSE, "Ok", TRUE, "call")
    /\ UNCHANGED <<run_vars, met_vars, aux_vars, kind, cfg, clock, users, lock, end_time, stage, next_rate_check_time,
                   now, current_rate, user_iter, iterations_completed, iter_idx,
                   pool_at_stage, cancelled>>

OnceIteration(o) ==
    /\ kind = "Once" /\ task[1] = "call"
    /\ Poll(1, TRUE, o, FALSE, "done")
    /\ UNCHANGED <<run_vars, met_vars, aux_vars, kind, cfg, clock, epc, users, lock, end_time, stage,
                   next_rate_check_time, now, current_rate, user_iter,
                   iterations_completed, iter_idx, pool_at_stage, cancelled>>

\* ---------------------------------------------------------------- Constant
\* The loop condition with the deadline instant included.
ConstantContinueAtDeadline == clock <= end_time

\* while Instant::now() < end_time
ConstantContinue == clock < end_time

ConstantTask ==
    /\ kind = "Constant" /\ epc = "ready"
    /\ epc' = "collect"
    /\ task' = SpawnDrivers(users)
    /\ UNCHANGED <<run_vars, met_vars, aux_vars, kind, cfg, clock, users, inflight, lock, end_time, stage,
                   next_rate_check_time, now, current_rate, user_iter,
                   iterations_completed, iter_idx, started, completed, spans, chan,
                   pool_at_stage, cancelled>>

ConstantDriver(u, fin, o) ==
    /\ kind = "Constant"
    /\ Loop(u, fin, o, ConstantContinue)
    /\ UNCHANGED <<run_vars, met_vars, aux_vars, kind, cfg, clock, epc, users, lock, end_time, stage,
                   next_rate_check_time, now, current_rate, user_iter,
                   iterations_completed, iter_idx, pool_at_stage, cancelled>>

\* ------------------------------------------------------------------ Shared
\* AtomicUsize::new(iterations)
SharedCounterInit(iterations) == iterations

\* A driver that never leaves its loop on the counter.
SharedBreakNever(current_iteration, iterations) == FALSE

\* if current_iteration >= iterations { break }
SharedBreak(current_iteration, iterations) == current_iteration >= iterations

SharedTask ==
    /\ kind = "Shared" /\ epc = "ready"
    /\ epc' = "collect"
    /\ iterations_completed' = SharedCounterInit(cfg.iterations)
    /\ task' = SpawnDrivers(users)
    /\ UNCHANGED <<run_vars, met_vars, aux_vars, kind, cfg, clock, users, inflight, lock, end_time, stage,
                   next_rate_check_time, now, current_rate, user_iter,
                   iter_idx, started, completed, spans, chan, pool_at_stage, cancelled>>

\* One turn of the while loop: the deadline test, then the fetch_add.
SharedTurn(u, fin, o) ==
    IF clock < end_time
    THEN /\ iterations_completed' = iterations_completed + 1
         /\ Loop(u, fin, o, ~SharedBreak(iterations_completed, cfg.iterations))
    ELSE /\ iterations_completed' = iterations_completed
         /\ Loop(u, fin, o, FALSE)

SharedDriver(u, fin, o) ==
    /\ kind = "Shared"
    /\ SharedTurn(u, fin, o)
    /\ UNCHANGED <<run_vars, met_vars, aux_vars, kind, cfg, clock, epc, users, lock, end_time, stage,
                   next_rate_check_time, now, current_rate, user_iter,
                   iter_idx, pool_at_stage, cancelled>>

\* ----------------------------------------------------------------- PerUser
\* The range with its upper end included.
PerUserContinueInclusive(idx, iterations) == idx <= iterations

\* for _ in 0..iterations
PerUserContinue(idx, iterations) == idx < iterations

PerUserTask ==
    /\ kind = "PerUser" /\ epc = "ready"
    /\ epc' = "collect"
    /\ task' = SpawnDrivers(users)
    /\ UNCHANGED <<run_vars, met_vars, aux_vars, kind, cfg, clock, users, inflight, lock, end_time, stage,
                   next_rate_check_time, now, current_rate, user_iter,
                   iterations_completed, iter_idx, started, completed, spans, chan,
                   pool_at_stage, cancelled>>

PerUserTurn(u, fin, o) ==
    LET go == PerUserContinue(iter_idx[u], cfg.iterations) IN
    /\ Loop(u, fin, o, go)
    /\ iter_idx' = [iter_idx EXCEPT ![u] = IF go THEN @ + 1 ELSE @]

PerUserDriver(u, fin, o) ==
    /\ kind = "PerUser"
    /\ PerUserTurn(u, fin, o)
    /\ UNCHANGED <<run_vars, met_vars, aux_vars, kind, cfg, clock, epc, users, lock, end_time, stage,
                   next_rate_check_time, now, current_rate, user_iter,
                   iterations_completed, pool_at_stage, cancelled>>

\* scope.collect().await of Once, Constant, Shared and PerUser: the executor
\* task ends when every spawned task has ended.
Collect ==
    /\ kind \in {"Once", "Constant", "Shared", "PerUser"}
    /\ epc = "collect"
    /\ AllDone
    /\ epc' = "done"
    /\ UNCHANGED <<run_vars, met_vars, aux_vars, kind, cfg, clock, users, task, inflight, lock, end_time, stage,
                   next_rate_check_time, now, current_rate, user_iter,
                   iterations_completed, iter_idx, started, completed, spans, chan,
                   pool_at_stage, cancelled>>

\* ------------------------------------------------------------- RampingUser
CurStage == cfg.stages[stage]

\* A pool resized to the stage's target.
RampResize(len, target) == target

\* if len < target { users.extend(build_users(target - len)) }
RampGrow(len, target) == IF len < target THEN len + (target - len) ELSE len

\* Drivers for as many users as the stage's target only.
RampDriversTarget(len, target) == Min2(len, target)

\* users.iter_mut().map(..): a driver for every user of the pool.
RampDrivers(len, target) == len

\* build_users(pre_allocated_users), then the loop over the stages.
RampTask ==
    /\ kind = "RampingUser" /\ epc = "ready"
    /\ users' = cfg.pre_allocate_users
    /\ stage' = 1
    /\ epc' = IF Len(cfg.stages) >= 1 THEN "stage" ELSE "done"
    /\ UNCHANGED <<run_vars, met_vars, aux_vars, kind, cfg, clock, task, inflight, lock, end_time,
                   next_rate_check_time, now, current_rate, user_iter,
                   iterations_completed, iter_idx, started, completed, spans, chan,
                   pool_at_stage, cancelled>>

\* One stage begins: grow the pool to the target, set the deadline, spawn a
\* driver for every user of the pool.
RampStage ==
    /\ kind = "RampingUser" /\ epc = "stage"
    /\ users' = RampGrow(users, CurStage.target)
    /\ clock' = 0
    /\ end_time' = clock' + CurStage.duration
    /\ task' = [u \in UserIds |-> IF u <= RampDrivers(users', CurStage.target)
                                   THEN "spawned" ELSE task[u]]
    /\ pool_at_stage' = Append(pool_at_stage, users')
    /\ epc' = "collect"
    /\ UNCHANGED <<run_vars, met_vars, aux_vars, kind, cfg, inflight, lock, stage,
                   next_rate_check_time, now, current_rate, user_iter,
                   iterations_completed, iter_idx, started, completed, spans, chan,
                   cancelled>>

\* A driver that still starts an iteration at the deadline.
RampContinueAtDeadline == clock <= end_time

\* while Instant::now() < end_time
RampContinue == clock < end_time

RampDriver(u, fin, o) ==
    /\ kind = "RampingUser"
    /\ Loop(u, fin, o, RampContinue)
    /\ UNCHANGED <<run_vars, met_vars, aux_vars, kind, cfg, clock, epc, users, lock, end_time, stage,
                   next_rate_check_time, now, current_rate, user_iter,
                   iterations_completed, iter_idx, pool_at_stage, cancelled>>

\* scope.collect().await at the end of a stage, then the next stage or the end.
RampCollect ==
    /\ kind = "RampingUser" /\ epc = "collect"
    /\ AllDone
    /\ IF stage < Len(cfg.stages)
       THEN stage' = stage + 1 /\ epc' = "stage"
       ELSE stage' = stage /\ epc' = "done"
    /\ task' = NoTasks
    /\ UNCHANGED <<run_vars, met_vars, aux_vars, kind, cfg, clock, users, inflight, lock, end_time,
                   next_rate_check_time, now, current_rate, user_iter,
                   iterations_completed, iter_idx, started, completed, spans, chan,
                   pool_at_stage, cancelled>>

\* ------------------------------------- RampingArrivalRate / ConstantArrivalRate
\* build_users(pre_allocated_users), each user wrapped in a Mutex.
ArrTask ==
    /\ kind \in ArrivalKinds /\ epc = "ready"
    /\ users' = cfg.pre_allocate_users
    /\ stage' = 1
    /\ epc' = IF Len(cfg.stages) >= 1 THEN "stage" ELSE "done"
    /\ UNCHANGED <<run_vars, met_vars, aux_vars, kind, cfg, clock, task, inflight, lock, end_time,
                   next_rate_check_time, now, current_rate, user_iter,
                   iterations_completed, iter_idx, started, completed, spans, chan,
                   pool_at_stage, cancelled>>

\* let end_time = Instant::now() + *duration
ArrStage ==
    /\ kind \in ArrivalKinds /\ epc = "stage"
    /\ clock' = 0
    /\ end_time' = clock' + CurStage.duration
    /\ next_rate_check_time' = 0
    /\ now' = 0
    /\ epc' = "while"
    /\ UNCHANGED <<run_vars, met_vars, aux_vars, kind, cfg, users, task, inflight, lock, stage,
                   current_rate, user_iter,
                   iterations_completed, iter_idx, started, completed, spans, chan,
                   pool_at_stage, cancelled>>

\* while Instant::now() < end_time: a window, or the next stage, or the end.
ArrWhile ==
    /\ kind \in ArrivalKinds /\ epc = "while"
    /\ IF clock < end_time
       THEN stage' = stage /\ epc' = "window"
       ELSE IF stage < Len(cfg.stages)
            THEN stage' = stage + 1 /\ epc' = "stage"
            ELSE stage' = stage /\ epc' = "done"
    /\ UNCHANGED <<run_vars, met_vars, aux_vars, kind, cfg, clock, users, task, inflight, lock, end_time,
                   next_rate_check_time, now, current_rate, user_iter,
                   iterations_completed, iter_idx, started, completed, spans, chan,
                   pool_at_stage, cancelled>>

\* The window begins: its deadline, current_rate = 0, a new scope and a new
\* cyclic iterator over the pool.
ArrWindow ==
    /\ kind \in ArrivalKinds /\ epc = "window"
    /\ next_rate_check_time' = clock + CurStage.time_unit
    /\ current_rate' = 0
    /\ user_iter' = 1
    /\ epc' = "now"
    /\ UNCHANGED <<run_vars, met_vars, aux_vars, kind, cfg, clock, users, task, inflight, lock, end_time, stage,
                   now, iterations_completed, iter_idx, started, completed, spans, chan,
                   pool_at_stage, cancelled>>

\* let now = Instant::now(), read once before the selection loop.
ArrNow ==
    /\ kind \in ArrivalKinds /\ epc = "now"
    /\ now' = clock
    /\ epc' = "select"
    /\ UNCHANGED <<run_vars, met_vars, aux_vars, kind, cfg, clock, users, task, inflight, lock, end_time, stage,
                   next_rate_check_time, current_rate, user_iter,
                   iterations_completed, iter_idx, started, completed, spans, chan,
                   pool_at_stage, cancelled>>

\* A selection loop that goes on while current_rate <= rate.
ArrLoopCondInclusive ==
    now < next_rate_check_time /\ now < end_time /\ current_rate <= CurStage.rate

\* while now < next_rate_check_time && now < end_time && current_rate < *rate
ArrLoopCond == now < next_rate_check_time /\ now < end_time /\ current_rate < CurStage.rate

\* A try_lock that always succeeds.
TryLockAlways(u) == TRUE

\* x.try_lock().ok()
TryLock(u) == ~lock[u]

NextUser(u) == (u % users) + 1

\* One step of user_iter.next(): try_lock on the user under the iterator.  A
\* free user is locked and its operation is spawned with the guard; a busy one
\* is skipped and the cyclic iterator moves on.
ArrTryLock ==
    /\ kind \in ArrivalKinds /\ epc = "select"
    /\ ArrLoopCond
    /\ users > 0
    /\ user_iter' = NextUser(user_iter)
    /\ IF TryLock(user_iter)
       THEN /\ lock' = [lock EXCEPT ![user_iter] = TRUE]
            /\ Poll(user_iter, FALSE, "Ok", TRUE, "call")
            /\ current_rate' = current_rate + 1
       ELSE UNCHANGED <<lock, task, inflight, started, completed, spans, chan, current_rate>>
    /\ UNCHANGED <<run_vars, met_vars, aux_vars, kind, cfg, clock, epc, users, end_time, stage,
                   next_rate_check_time, now, iterations_completed, iter_idx,
                   pool_at_stage, cancelled>>

\* user_iter.next().unwrap() on an empty pool: the cycle of an empty iterator
\* yields None and the executor task panics.
ArrNoUser ==
    /\ kind \in ArrivalKinds /\ epc = "select"
    /\ ArrLoopCond
    /\ users = 0
    /\ epc' = "panicked"
    /\ UNCHANGED <<run_vars, met_vars, aux_vars, kind, cfg, clock, users, task, inflight, lock, end_time, stage,
                   next_rate_check_time, now, current_rate, user_iter,
                   iterations_completed, iter_idx, started, completed, spans, chan,
                   pool_at_stage, cancelled>>

ArrLoopExit ==
    /\ kind \in ArrivalKinds /\ epc = "select"
    /\ ~ArrLoopCond
    /\ epc' = "collect"
    /\ UNCHANGED <<run_vars, met_vars, aux_vars, kind, cfg, clock, users, task, inflight, lock, end_time, stage,
                   next_rate_check_time, now, current_rate, user_iter,
                   iterations_completed, iter_idx, started, completed, spans, chan,
                   pool_at_stage, cancelled>>

\* A guard that outlives its operation.
GuardKept(l, u) == l

\* The MutexGuard moved into the operation's task is dropped at its end.
GuardDropped(l, u) == [l EXCEPT ![u] = FALSE]

\* The spawned operation returns: the outcome is sent and the guard dropped.
ArrIteration(u, o) ==
    /\ kind \in ArrivalKinds /\ task[u] = "call"
    /\ Poll(u, TRUE, o, FALSE, "done")
    /\ lock' = GuardDropped(lock, u)
    /\ UNCHANGED <<run_vars, met_vars, aux_vars, kind, cfg, clock, epc, users, end_time, stage,
                   next_rate_check_time, now, current_rate, user_iter,
                   iterations_completed, iter_idx, pool_at_stage, cancelled>>

\* scope.collect().await; drop(scope)
ArrCollect ==
    /\ kind \in ArrivalKinds /\ epc = "collect"
    /\ AllDone
    /\ epc' = "grow"
    /\ task' = NoTasks
    /\ UNCHANGED <<run_vars, met_vars, aux_vars, kind, cfg, clock, users, inflight, lock, end_time, stage,
                   next_rate_check_time, now, current_rate, user_iter,
                   iterations_completed, iter_idx, started, completed, spans, chan,
                   pool_at_stage, cancelled>>

\* build_users(datastore, user_builder, rate - current_rate)
ArrGrowCount(rate, started_in_window, len, max_users) == rate - started_in_window

\* if current_rate < *rate && users.len() < max_users { users.extend(...) }
ArrGrow ==
    /\ kind \in ArrivalKinds /\ epc = "grow"
    /\ users' = IF current_rate < CurStage.rate /\ users < cfg.max_users
                THEN users + ArrGrowCount(CurStage.rate, current_rate, users, cfg.max_users)
                ELSE users
    /\ epc' = "pace"
    /\ UNCHANGED <<run_vars, met_vars, aux_vars, kind, cfg, clock, task, inflight, lock, end_time, stage,
                   next_rate_check_time, now, current_rate, user_iter,
                   iterations_completed, iter_idx, started, completed, spans, chan,
                   pool_at_stage, cancelled>>

\* if Instant::now() <= end_time || current_rate < *rate { sleep_until(..) }
ArrPace ==
    /\ kind \in ArrivalKinds /\ epc = "pace"
    /\ epc' = IF clock <= end_time \/ current_rate < CurStage.rate THEN "sleep" ELSE "while"
    /\ UNCHANGED <<run_vars, met_vars, aux_vars, kind, cfg, clock, users, task, inflight, lock, end_time, stage,
                   next_rate_check_time, now, current_rate, user_iter,
                   iterations_completed, iter_idx, started, completed, spans, chan,
                   pool_at_stage, cancelled>>

\* A sleep that returns before the window's deadline.
ArrWakeEarly ==
    /\ kind \in ArrivalKinds /\ epc = "sleep"
    /\ epc' = "while"
    /\ UNCHANGED <<run_vars, met_vars, aux_vars, kind, cfg, clock, users, task, inflight, lock, end_time, stage,
                   next_rate_check_time, now, current_rate, user_iter,
                   iterations_completed, iter_idx, started, completed, spans, chan,
                   pool_at_stage, cancelled>>

\* tokio::time::sleep_until(next_rate_check_time) returns.
ArrWake ==
    /\ kind \in ArrivalKinds /\ epc = "sleep"
    /\ clock >= next_rate_check_time
    /\ epc' = "while"
    /\ UNCHANGED <<run_vars, met_vars, aux_vars, kind, cfg, clock, users, task, inflight, lock, end_time, stage,
                   next_rate_check_time, now, current_rate, user_iter,
                   iterations_completed, iter_idx, started, completed, spans, chan,
                   pool_at_stage, cancelled>>

\* ---------------------------------------------------------- progress events
\* The last users/users_max event of a staged executor: RampingUser emits
\* users = users.len(), users_max = target_users.max(&pre_allocated_users)
\* after the growth of a stage, the arrival-rate executors emit
\* users = users.len(), users_max = pre_allocated_users after the growth of a
\* window.  No event of this kind is <<>>.
UsersEvent ==
    CASE kind = "RampingUser" /\ epc = "collect" ->
           [users |-> users,
            users_max |-> Max2(CurStage.target, cfg.pre_allocate_users)]
      [] kind \in ArrivalKinds /\ epc = "pace" ->
           [users |-> users, users_max |-> cfg.pre_allocate_users]
      [] OTHER -> <<>>

\* ------------------------------------------------------------ cancellation
\* The holder of the executor task drops it (the runner's scope.cancel()): the
\* task's own scope is dropped, which cancels every task spawned in it at its
\* suspension point and waits for them; calls in flight are dropped with their
\* guards and send nothing, and the locals of the task are gone.
CancelTask ==
    /\ epc \in {"ready", "collect", "stage", "while", "window", "now", "select",
                "grow", "pace", "sleep"}
    /\ epc' = "cancelled"
    /\ cancelled' = TRUE
    /\ task' = [u \in UserIds |-> IF Running(u) THEN "cancelled" ELSE "none"]
    /\ inflight' = [u \in UserIds |-> IF Running(u) THEN 0 ELSE inflight[u]]
    /\ lock' = [u \in UserIds |-> FALSE]
    /\ clock' = 0 /\ end_time' = 0 /\ next_rate_check_time' = 0 /\ now' = 0
    /\ current_rate' = 0 /\ user_iter' = 1
    /\ UNCHANGED <<run_vars, met_vars, aux_vars, kind, cfg, users, stage,
                   iterations_completed, iter_idx, started, completed, spans, chan,
                   pool_at_stage>>

ExecNext ==
    \/ Tick
    \/ Execute
    \/ OnceTask
    \/ \E o \in Outcome : OnceIteration(o)
    \/ ConstantTask
    \/ \E u \in UserIds, fin \in BOOLEAN, o \in Outcome : ConstantDriver(u, fin, o)
    \/ SharedTask
    \/ \E u \in UserIds, fin \in BOOLEAN, o \in Outcome : SharedDriver(u, fin, o)
    \/ PerUserTask
    \/ \E u \in UserIds, fin \in BOOLEAN, o \in Outcome : PerUserDriver(u, fin, o)
    \/ Collect
    \/ RampTask
    \/ RampStage
    \/ \E u \in UserIds, fin \in BOOLEAN, o \in Outcome : RampDriver(u, fin, o)
    \/ RampCollect
    \/ ArrTask
    \/ ArrStage
    \/ ArrWhile
    \/ ArrWindow
    \/ ArrNow
    \/ ArrTryLock
    \/ ArrNoUser
    \/ ArrLoopExit
    \/ \E u \in UserIds, o \in Outcome : ArrIteration(u, o)
    \/ ArrCollect
    \/ ArrGrow
    \/ ArrPace
    \/ ArrWake
    \/ CancelTask

\* ================================================================== runner
\* Runner::run (src/src/runner.rs).  The executors of the runner model are
\* PerUser executors of one user: each runs its iterations in sequence and
\* sends every outcome on its clone of the runner's sender.
\* The executors of the runner's plans: PerUser builds its users in
\* DataExecutor::new, RampingUser builds them in its task.
PlanKinds == {"PerUser", "RampingUser"}

Plan(k, a, i) == [kind |-> k, start_after |-> a, iterations |-> i]

\* A run has no scenario or MaxScenarios of them, all of the same shape: the
\* same number of executors of one kind, the first started at once and each
\* other one at once or after the one delay of the run, the delayed ones last
\* in the list, and one iteration count.  A RampingUser plan has one stage
\* whose deadline passes after `iterations` calls of its user.
Delayed(q) ==
    /\ Len(q) >= 1 => q[1].start_after = 0
    /\ \A k \in 1..(Len(q) - 1) : q[k].start_after <= q[k + 1].start_after

ScenarioShapes(k, i) ==
    {q \in UNION {[1..n -> {Plan(k, a, i) : a \in {0, MaxDuration}}] : n \in 0..MaxExecutors} :
        Delayed(q)}

RunConfigs ==
    UNION {{[j \in 1..n |-> q] : n \in {0, MaxScenarios}, q \in ScenarioShapes(k, i)} :
           k \in PlanKinds, i \in 1..MaxIterations}

\* scenario.execution_provider of the scenario of the loop
Providers == IF scenario_index \in 1..Len(scenarios) THEN scenarios[scenario_index] ELSE <<>>

ExecIdle ==
    /\ kind = "Once"
    /\ cfg = Config(1, 0, 0, 0, 0, <<>>)
    /\ clock = 0
    /\ epc = "idle"
    /\ users = 0
    /\ task = NoTasks
    /\ inflight = [u \in UserIds |-> 0]
    /\ lock = [u \in UserIds |-> FALSE]
    /\ end_time = 0
    /\ stage = 0
    /\ next_rate_check_time = 0
    /\ now = 0
    /\ current_rate = 0
    /\ user_iter = 1
    /\ iterations_completed = 0
    /\ iter_idx = [u \in UserIds |-> 0]
    /\ started = 0
    /\ completed = 0
    /\ spans = 0
    /\ chan = [o \in Outcome |-> 0]
    /\ pool_at_stage = <<>>
    /\ cancelled = FALSE

\* The state when run() is called: the for loop over the scenarios is about
\* to take its first element, or to end at once when there is none.
RunInit ==
    /\ ExecIdle
    /\ MetIdle
    /\ AuxIdle
    /\ scenarios \in RunConfigs
    /\ rpc = (IF Len(scenarios) = 0 THEN "exit" ELSE "scenario")
    /\ scenario_index = (IF Len(scenarios) = 0 THEN 0 ELSE 1)
    /\ executors = NoExecutors
    /\ x_task = [e \in ExecIds |-> "none"]
    /\ x_idx = [e \in ExecIds |-> 0]
    /\ scope = "none"
    /\ user_result_tx = FALSE
    /\ user_result_rx = {}
    /\ results = {}
    /\ has_user_terminated = FALSE
    /\ runner_exit = 0
    /\ store = NoStores
    /\ scenario_span = 0

\* A scenario loop that enters no span.
EnteredNoSpan(id) == 0

\* span.enter() on the span created with id = scenario_index
EnteredSpan(id) == id

\* The scenario span is entered and one ExecutionRuntimeCtx, with an empty
\* data store, is created for every plan; the state of the previous scenario
\* is gone.
EnterScenario ==
    /\ rpc = "scenario"
    /\ rpc' = "init"
    /\ scenario_span' = EnteredSpan(scenario_index)
    /\ executors' = NoExecutors
    /\ x_task' = [e \in ExecIds |-> "none"]
    /\ x_idx' = [e \in ExecIds |-> 0]
    /\ scope' = "none"
    /\ results' = {}
    /\ user_result_rx' = {}
    /\ store' = NoStores
    /\ UNCHANGED <<exec_vars, met_vars, aux_vars, scenarios, scenario_index, user_result_tx,
                   has_user_terminated, runner_exit>>

\* DataExecutor::new builds the users of Once, Constant, Shared and PerUser
\* with build_users; the ramping executors get their builder only.
BuildsAtNew(k) == k \in {"Once", "Constant", "Shared", "PerUser"}

\* self.datastore_modifiers of the e-th plan of a scenario: e initializers,
\* each known by its plan and its place in the list.
Modifiers(e) == [j \in 1..e |-> <<e, j>>]

\* The context zipped with the e-th plan.
CtxOf(e) == e

\* One turn of the for loop of ExecutionPlan::execution for the e-th plan:
\* ctx.modify(modifier) runs the next initializer on the store of the plan's
\* context.
ModifyStore(e) ==
    /\ rpc = "init"
    /\ e <= Len(Providers)
    /\ executors[e] = "none"
    /\ \A d \in 1..(e - 1) : executors[d] = "built"
    /\ Len(store[CtxOf(e)]) < Len(Modifiers(e))
    /\ store' = [store EXCEPT ![CtxOf(e)] = Append(@, Modifiers(e)[Len(@) + 1])]
    /\ UNCHANGED <<exec_vars, met_vars, aux_vars, scenarios, scenario_span, rpc, scenario_index, executors, x_task,
                   x_idx, scope, user_result_tx, user_result_rx, results,
                   has_user_terminated, runner_exit>>

\* An execution() that builds its executor without running the initializers.
ModifiersSkipped(e) == TRUE

\* The for loop over datastore_modifiers has ended.
ModifiersDone(e) == Len(store[CtxOf(e)]) = Len(Modifiers(e))

\* executors.push(exec.execution(ctx).await), in the order of the list: after
\* its initializers, DataExecutor::new.
InitExecutor(e) ==
    /\ rpc = "init"
    /\ e <= Len(Providers)
    /\ executors[e] = "none"
    /\ \A d \in 1..(e - 1) : executors[d] = "built"
    /\ ModifiersDone(e)
    /\ executors' = [executors EXCEPT ![e] = "built"]
    /\ UNCHANGED <<exec_vars, met_vars, aux_vars, scenarios, store, scenario_span, rpc, scenario_index, x_task, x_idx, scope,
                   user_result_tx, user_result_rx, results, has_user_terminated,
                   runner_exit>>

\* The builder returns Err inside DataExecutor::new: the unwrap of build_users
\* panics in run() itself, which unwinds: the executors built so far and the
\* contexts and the span guard are dropped, no task was spawned yet, and
\* run() never returns.
InitExecutorFails(e) ==
    /\ rpc = "init"
    /\ e <= Len(Providers)
    /\ BuildsAtNew(Providers[e].kind)
    /\ executors[e] = "none"
    /\ \A d \in 1..(e - 1) : executors[d] = "built"
    /\ ModifiersDone(e)
    /\ executors' = [d \in ExecIds |-> IF executors[d] = "built" THEN "dropped" ELSE executors[d]]
    /\ store' = NoStores
    /\ scenario_span' = 0
    /\ rpc' = "panicked"
    /\ UNCHANGED <<exec_vars, met_vars, aux_vars, scenarios, scenario_index, x_task, x_idx, scope,
                   user_result_tx, user_result_rx, results, has_user_terminated,
                   runner_exit>>

\* Scope::create, crate::channel() and the FuturesUnordered of delays.
CreateScope ==
    /\ rpc = "init"
    /\ \A e \in 1..Len(Providers) : executors[e] = "built"
    /\ rpc' = "spawn"
    /\ scope' = "open"
    /\ user_result_tx' = TRUE
    /\ UNCHANGED <<exec_vars, met_vars, aux_vars, scenarios, store, scenario_span, scenario_index, executors, x_task, x_idx,
                   user_result_rx, results, has_user_terminated, runner_exit>>

\* The delay of executor e is the next to elapse: no executor still waiting
\* has a shorter one.
DelayElapsed(e) ==
    \A d \in 1..Len(Providers) :
        executors[d] = "built" => Providers[e].start_after <= Providers[d].start_after

\* One turn of the while let loop: runtime.execute(user_result_tx.clone()) and
\* scope.spawn_cancellable(task).
SpawnExecutor(e) ==
    /\ rpc = "spawn"
    /\ e <= Len(Providers)
    /\ executors[e] = "built"
    /\ DelayElapsed(e)
    /\ executors' = [executors EXCEPT ![e] = "spawned"]
    /\ UNCHANGED <<exec_vars, met_vars, aux_vars, scenarios, store, scenario_span, rpc, scenario_index, x_task, x_idx, scope,
                   user_result_tx, user_result_rx, results, has_user_terminated,
                   runner_exit>>

\* A runner that keeps its sender while it reads the channel.
SenderKept == TRUE

\* drop(user_result_tx): the runner holds no sender any more.
SenderDropped == FALSE

\* The stream of delays is exhausted: drop(spawn_executor); drop(user_result_tx),
\* and has_user_terminated(user_result_rx) is called.
DropSender ==
    /\ rpc = "spawn"
    /\ \A e \in 1..Len(Providers) : executors[e] # "built"
    /\ user_result_tx' = SenderDropped
    /\ rpc' = "drain"
    /\ UNCHANGED <<exec_vars, met_vars, aux_vars, scenarios, store, scenario_span, scenario_index, executors, x_task, x_idx, scope,
                   user_result_rx, results, has_user_terminated, runner_exit>>

\* An executor task is polled unless its abort handle was triggered.
Pollable(e) == scope = "open"

\* First poll of the task of executor e: it spawns its driver and waits in
\* scope.collect().
XTask(e) ==
    /\ executors[e] = "spawned"
    /\ Pollable(e)
    /\ executors' = [executors EXCEPT ![e] = "running"]
    /\ x_task' = [x_task EXCEPT ![e] = "spawned"]
    /\ UNCHANGED <<exec_vars, met_vars, aux_vars, scenarios, store, scenario_span, rpc, scenario_index, x_idx, scope,
                   user_result_tx, user_result_rx, results, has_user_terminated,
                   runner_exit>>

\* The builder returns Err inside the task of a ramping executor, at its
\* first poll (the initial users) or when the next stage wants more users
\* after the stage's collect: the unwrap of build_users panics in the executor
\* task, which ends there; its sender is dropped and nothing was sent.
XBuildFails(e) ==
    /\ Pollable(e)
    /\ \/ executors[e] = "spawned"
       \/ executors[e] = "running" /\ x_task[e] = "done"
    /\ ~BuildsAtNew(Providers[e].kind)
    /\ executors' = [executors EXCEPT ![e] = "build_panicked"]
    /\ UNCHANGED <<exec_vars, met_vars, aux_vars, scenarios, store, scenario_span, rpc, scenario_index, x_task, x_idx, scope,
                   user_result_tx, user_result_rx, results, has_user_terminated,
                   runner_exit>>

\* The receiver exists from crate::channel() until has_user_terminated returns.
ReceiverAlive == rpc \in {"spawn", "drain"}

\* A driver that leaves its loop when the send fails.
SendChecked(go, alive) == go /\ alive

\* let _ = tx.send(..): the result of the send is dropped.
SendIgnored(go, alive) == go

\* One poll of the driver of executor e (the loop of PerUserIteration): the
\* call in flight returns o, which is sent, and the next iteration starts if
\* there is one.  The driver is a task of its own: it runs until the executor
\* task is dropped.  The loop variable is gone when the driver ends.
XDriver(e, fin, o) ==
    LET go == PerUserContinue(x_idx[e], Providers[e].iterations) IN
    /\ executors[e] = "running"
    /\ x_task[e] = (IF fin THEN "call" ELSE "spawned")
    /\ x_task' = [x_task EXCEPT ![e] = IF SendIgnored(go, ~fin \/ ReceiverAlive)
                                      THEN "call" ELSE "done"]
    /\ x_idx' = [x_idx EXCEPT ![e] = IF SendIgnored(go, ~fin \/ ReceiverAlive) THEN @ + 1 ELSE 0]
    /\ user_result_rx' = IF fin /\ ReceiverAlive THEN user_result_rx \cup {o} ELSE user_result_rx
    /\ UNCHANGED <<exec_vars, met_vars, aux_vars, scenarios, store, scenario_span, rpc, scenario_index, executors, scope,
                   user_result_tx, results, has_user_terminated, runner_exit>>

\* The call in flight of executor e panics.  The driver is a spawned task: the
\* panic ends that task alone, its sender is dropped with it and nothing was
\* sent for the call (user_call awaits the call and has no unwind handler).
XPanic(e) ==
    /\ executors[e] = "running"
    /\ x_task[e] = "call"
    /\ x_task' = [x_task EXCEPT ![e] = "panicked"]
    /\ x_idx' = [x_idx EXCEPT ![e] = 0]
    /\ UNCHANGED <<exec_vars, met_vars, aux_vars, scenarios, store, scenario_span, rpc, scenario_index, executors,
                   scope, user_result_tx, user_result_rx, results, has_user_terminated,
                   runner_exit>>

\* scope.collect() of executor e returns, its result ignored (`let _ =`), when
\* the driver has ended, by returning or by a panic; the executor task ends
\* and drops its sender.
XCollect(e) ==
    /\ executors[e] = "running"
    /\ Pollable(e)
    /\ x_task[e] \in {"done", "panicked"}
    /\ executors' = [executors EXCEPT ![e] = "finished"]
    /\ UNCHANGED <<exec_vars, met_vars, aux_vars, scenarios, store, scenario_span, rpc, scenario_index, x_task, x_idx, scope,
                   user_result_tx, user_result_rx, results, has_user_terminated,
                   runner_exit>>

\* A search that finds no Err.
HasErrNever(res) == FALSE

\* results.iter().filter_map(|x| x.as_ref().err()).next() is Some
HasErr(res) == \E o \in res : o # "Ok"

\* recv_many returned > 0: everything waiting is appended to results (the
\* limit of 128 is beyond the model's runs) and results is searched for an Err.
Recv ==
    /\ rpc = "drain"
    /\ user_result_rx # {}
    /\ results' = results \cup user_result_rx
    /\ user_result_rx' = {}
    /\ has_user_terminated' = HasErr(results')
    /\ rpc' = IF HasErr(results') THEN "terminated" ELSE "drain"
    /\ UNCHANGED <<exec_vars, met_vars, aux_vars, scenarios, store, scenario_span, scenario_index, executors, x_task, x_idx, scope,
                   user_result_tx, runner_exit>>

\* Every sender is gone: the runner's and the clone of every executor task.
ChannelClosed ==
    /\ ~user_result_tx
    /\ \A e \in ExecIds : executors[e] \notin {"spawned", "running"}

\* recv_many returned 0: the channel is closed and empty.
RecvClosed ==
    /\ rpc = "drain"
    /\ user_result_rx = {}
    /\ ChannelClosed
    /\ has_user_terminated' = FALSE
    /\ rpc' = "collect"
    /\ UNCHANGED <<exec_vars, met_vars, aux_vars, scenarios, store, scenario_span, scenario_index, executors, x_task, x_idx, scope,
                   user_result_tx, user_result_rx, results, runner_exit>>

\* scope.cancel(): the abort handle of every executor task is triggered.
Cancel ==
    /\ rpc = "terminated"
    /\ scope' = "cancelled"
    /\ rpc' = "dropscope"
    /\ UNCHANGED <<exec_vars, met_vars, aux_vars, scenarios, store, scenario_span, scenario_index, executors, x_task, x_idx,
                   user_result_tx, user_result_rx, results, has_user_terminated,
                   runner_exit>>

\* A driver that is left running when its executor task is dropped.
AbortedDetached(t) == t

\* Drop of the scope inside the executor task: a driver that has not ended is
\* cancelled, and the drop returns when it is gone.
Aborted(t) == IF t \in {"spawned", "call"} THEN "cancelled" ELSE t

\* The next poll of an aborted executor task drops its future: the scope
\* inside it is dropped, which cancels its driver and waits for it.
XAbort(e) ==
    /\ scope = "cancelled"
    /\ executors[e] \in {"spawned", "running"}
    /\ executors' = [executors EXCEPT ![e] = "cancelled"]
    /\ x_task' = [x_task EXCEPT ![e] = Aborted(@)]
    /\ x_idx' = [x_idx EXCEPT ![e] = 0]
    /\ UNCHANGED <<exec_vars, met_vars, aux_vars, scenarios, store, scenario_span, rpc, scenario_index, scope,
                   user_result_tx, user_result_rx, results, has_user_terminated,
                   runner_exit>>

\* A scope that is dropped without waiting for its tasks.
ScopeDoneNoWait == TRUE

\* No task of the runner's scope is left running.
ScopeDone == \A e \in ExecIds : executors[e] \notin {"spawned", "running"}

\* Scope::collect(&mut scope).await
CollectScope ==
    /\ rpc = "collect"
    /\ ScopeDone
    /\ scope' = "collected"
    /\ rpc' = "dropscope"
    /\ UNCHANGED <<exec_vars, met_vars, aux_vars, scenarios, store, scenario_span, scenario_index, executors, x_task, x_idx,
                   user_result_tx, user_result_rx, results, has_user_terminated,
                   runner_exit>>

\* drop(scope) returns when every task of the scope has ended.
DropScope ==
    /\ rpc = "dropscope"
    /\ ScopeDone
    /\ rpc' = "drop"
    /\ UNCHANGED <<exec_vars, met_vars, aux_vars, scenarios, store, scenario_span, scenario_index, executors, x_task, x_idx, scope,
                   user_result_tx, user_result_rx, results, has_user_terminated,
                   runner_exit>>

\* An executor that is never dropped.
DroppedNever(st) == st

\* exec.drop() of an executor whose task has ended
Dropped(st) == IF st \in {"finished", "cancelled", "build_panicked"} THEN "dropped" ELSE st

\* exec.drop() of every executor whose task has ended, then the end of the
\* loop body, where the executors, the runtime contexts with their data
\* stores and the guard of the scenario span are dropped: break after a
\* termination, else the next scenario if any.
DropExecutors ==
    /\ rpc = "drop"
    /\ executors' = [e \in ExecIds |-> Dropped(executors[e])]
    /\ store' = NoStores
    /\ scenario_span' = 0
    /\ IF ~has_user_terminated /\ scenario_index < Len(scenarios)
       THEN rpc' = "scenario" /\ scenario_index' = scenario_index + 1
       ELSE rpc' = "exit" /\ scenario_index' = scenario_index
    /\ UNCHANGED <<exec_vars, met_vars, aux_vars, scenarios, x_task, x_idx, scope,
                   user_result_tx, user_result_rx, results, has_user_terminated,
                   runner_exit>>

\* event!(name: "runner_exit") and the return of run().
\* The value run() would return if an early termination were reported to its
\* caller.
RunResultReported(terminated) == IF terminated THEN "Err" ELSE "Ok"

\* The value run() returns: the literal Ok(()) after the scenario loop,
\* whether the loop ended by itself or by the break on has_user_terminated;
\* the results of the display threads are discarded (let _ =).
RunResult(terminated) == "Ok"

RunnerExit ==
    /\ rpc = "exit"
    /\ runner_exit' = runner_exit + 1
    /\ rpc' = "returned"
    /\ UNCHANGED <<exec_vars, met_vars, aux_vars, scenarios, store, scenario_span, scenario_index, executors, x_task, x_idx, scope,
                   user_result_tx, user_result_rx, results, has_user_terminated>>

RunNext ==
    \/ EnterScenario
    \/ \E e \in ExecIds : ModifyStore(e)
    \/ \E e \in ExecIds : InitExecutor(e)
    \/ \E e \in ExecIds : InitExecutorFails(e)
    \/ CreateScope
    \/ \E e \in ExecIds : SpawnExecutor(e)
    \/ DropSender
    \/ \E e \in ExecIds : XTask(e)
    \/ \E e \in ExecIds : XBuildFails(e)
    \/ \E e \in ExecIds, fin \in BOOLEAN, o \in Outcome : XDriver(e, fin, o)
    \/ \E e \in ExecIds : XPanic(e)
    \/ \E e \in ExecIds : XCollect(e)
    \/ Recv
    \/ RecvClosed
    \/ Cancel
    \/ \E e \in ExecIds : XAbort(e)
    \/ CollectScope
    \/ DropScope
    \/ DropExecutors
    \/ RunnerExit

SpecExec == ExecInit /\ [][ExecNext]_vars

SpecRun == RunInit /\ [][RunNext]_vars

\* The steps of run() when no outcome is an error: nothing is cancelled.
RunnerStep ==
    \/ EnterScenario
    \/ \E e \in ExecIds : ModifyStore(e)
    \/ \E e \in ExecIds : InitExecutor(e)
    \/ CreateScope
    \/ \E e \in ExecIds : SpawnExecutor(e)
    \/ DropSender
    \/ Recv
    \/ RecvClosed
    \/ CollectScope
    \/ DropScope
    \/ DropExecutors
    \/ RunnerExit

\* The runs in which every call returns Ok and every builder succeeds.
RunNextOk ==
    \/ RunnerStep
    \/ \E e \in ExecIds : XTask(e)
    \/ \E e \in ExecIds, fin \in BOOLEAN : XDriver(e, fin, "Ok")
    \/ \E e \in ExecIds : XCollect(e)

\* Those runs on a runtime that polls every task that can run: run() itself,
\* each executor task and each driver.
SpecRunLive ==
    /\ RunInit
    /\ [][RunNextOk]_vars
    /\ WF_vars(RunnerStep)
    /\ \A e \in ExecIds : WF_vars(XTask(e) \/ XCollect(e))
    /\ \A e \in ExecIds : WF_vars(\E fin \in BOOLEAN : XDriver(e, fin, "Ok"))

\* ------------------------------------------------------------ MetricSet
\* One Counter key of a MetricSet shared by MaxTasks tasks, each with up to
\* MaxEvents updates of an amount in 1..MaxAmount.
MetInit ==
    /\ ExecIdle
    /\ RunIdle
    /\ AuxIdle
    /\ inner = <<>>
    /\ upd_pc = NoUpdates
    /\ upd_value = [t \in TaskIds |-> 0]
    /\ events \in [TaskIds -> 0..MaxEvents]
    /\ added = 0
    /\ seen = 0

\* Counter::get of the entry: entries() yields nothing for an absent key.
CounterValue(m) == IF m = <<>> THEN 0 ELSE m[1]

\* self.inner.get(&event.key) is Some: metric.update(event.value), which is
\* Counter::add, a fetch_add, under the read guard of the entry.
UpdateHit(t, amount) ==
    /\ upd_pc[t] = "idle" /\ events[t] > 0
    /\ inner # <<>>
    /\ inner' = <<inner[1] + amount>>
    /\ events' = [events EXCEPT ![t] = @ - 1]
    /\ added' = added + amount
    /\ UNCHANGED <<exec_vars, run_vars, aux_vars, upd_pc, upd_value, seen>>

\* self.inner.get(&event.key) is None: the task goes to the else branch.
UpdateMiss(t, amount) ==
    /\ upd_pc[t] = "idle" /\ events[t] > 0
    /\ inner = <<>>
    /\ upd_pc' = [upd_pc EXCEPT ![t] = "else"]
    /\ upd_value' = [upd_value EXCEPT ![t] = amount]
    /\ UNCHANGED <<exec_vars, run_vars, aux_vars, inner, events, added, seen>>

\* Metric::new, v.update(event.value) on the new Counter (0 + amount), and
\* self.inner.insert(event.key, v), which replaces the entry of the key.
UpdateInsert(t) ==
    /\ upd_pc[t] = "else"
    /\ inner' = <<0 + upd_value[t]>>
    /\ upd_pc' = [upd_pc EXCEPT ![t] = "idle"]
    /\ upd_value' = [upd_value EXCEPT ![t] = 0]
    /\ events' = [events EXCEPT ![t] = @ - 1]
    /\ added' = added + upd_value[t]
    /\ UNCHANGED <<exec_vars, run_vars, aux_vars, seen>>

\* entries(): a snapshot of the value of the key.
Entries ==
    /\ seen' = CounterValue(inner)
    /\ UNCHANGED <<exec_vars, run_vars, aux_vars, inner, upd_pc, upd_value, events, added>>

MetNext ==
    \/ \E t \in TaskIds, amount \in 1..MaxAmount : UpdateHit(t, amount)
    \/ \E t \in TaskIds, amount \in 1..MaxAmount : UpdateMiss(t, amount)
    \/ \E t \in TaskIds : UpdateInsert(t)
    \/ Entries

SpecMetric == MetInit /\ [][MetNext]_vars

\* ------------------------------------------------------------ Histogram
\* One Histogram metric, observed up to MaxObs times with values in
\* 1..MaxAmount and read with value().
MaxObs == 3 * FlushLen

HistInit ==
    /\ ExecIdle
    /\ RunIdle
    /\ MetIdle
    /\ HistIdle
    /\ GaugeIdle
    /\ TuiIdle
    /\ VisitIdle

RECURSIVE Insert(_, _)
Insert(sorted, v) ==
    IF sorted = <<>> THEN <<v>>
    ELSE IF v <= Head(sorted) THEN <<v>> \o sorted
    ELSE <<Head(sorted)>> \o Insert(Tail(sorted), v)

RECURSIVE Sort(_)
\* sort_unstable
Sort(q) == IF q = <<>> THEN <<>> ELSE Insert(Sort(Tail(q)), Head(q))

\* tdigest.merge_unsorted(values): the digest of the old values and the new
\* ones, returned as a new TDigest; the receiver is not changed.  A digest is
\* modelled by the sorted values it summarises.
MergeUnsorted(tdigest, values) == Sort(tdigest \o values)

\* TDigest::default()
DefaultDigest == <<>>

\* A buffer that is taken only when it holds more than the threshold.
FlushesLate(len) == len > FlushLen

\* if inner.1.len() >= 4096
Flushes(len) == len >= FlushLen

\* inner.1.push(value); at FlushLen values the buffer is taken and merged,
\* the result of merge_unsorted dropped in both branches: an existing digest
\* stays as it is and a new one is the default, empty digest; inner.2 += value.
Observe(value) ==
    LET pushed == Append(hist.values, value) IN
    /\ Len(observed) < MaxObs
    /\ observed' = Append(observed, value)
    /\ hist' = IF Flushes(Len(pushed))
               THEN [tdigest |-> IF hist.tdigest # <<>> THEN hist.tdigest ELSE <<DefaultDigest>>,
                     values |-> <<>>,
                     sum |-> hist.sum + value]
               ELSE [hist EXCEPT !.values = pushed, !.sum = @ + value]
    /\ hist_value' = <<>>
    /\ UNCHANGED <<hist_rest>>

\* tdigest.estimate_quantile(u / l): the value at that rank of the values the
\* digest summarises, 0 for a digest without centroids.
EstimateQuantile(tdigest, u, l) ==
    IF tdigest = <<>> THEN 0 ELSE tdigest[((Len(tdigest) * u) \div l) + 1]

\* lock.1[(lock.1.len() * u) / l] of the sorted buffer
BufferPercentile(values, u, l) == Sort(values)[((Len(values) * u) \div l) + 1]

\* get_percentile: from the digest alone when there is one, else from the
\* buffer.
GetPercentile(h, u, l) ==
    IF h.tdigest # <<>>
    THEN EstimateQuantile(h.tdigest[1], u, l)
    ELSE BufferPercentile(h.values, u, l)

\* get_percentiles: p50, p90, p95, p99
GetPercentiles(h) ==
    <<GetPercentile(h, 1, 2), GetPercentile(h, 9, 10),
      GetPercentile(h, 95, 100), GetPercentile(h, 99, 100)>>

\* Metric::value of a histogram that entries() can see, that is after its
\* first update: the percentiles are read and the buffer is left sorted.
HistValue ==
    /\ observed # <<>>
    /\ hist_value' = GetPercentiles(hist)
    /\ hist' = IF hist.tdigest # <<>> THEN hist ELSE [hist EXCEPT !.values = Sort(@)]
    /\ UNCHANGED <<hist_rest, observed>>

HistNext ==
    \/ \E value \in 1..MaxAmount : Observe(value)
    \/ HistValue

SpecHist == HistInit /\ [][HistNext]_vars

\* ---------------------------------------------------------------- Gauge
\* One gauge metric written by MaxTasks tasks, MaxEvents updates in all, and
\* read by one task.  A scalar value v is <<v, 0>>; the
\* durations written are v seconds and v nanoseconds, v in 1..MaxAmount.
GaugeInit ==
    /\ ExecIdle
    /\ RunIdle
    /\ MetIdle
    /\ HistIdle
    /\ TuiIdle
    /\ VisitIdle
    /\ gauge_kind \in {"scalar", "duration"}
    /\ gauge = GaugeDefault
    /\ set_pc = [t \in TaskIds |-> "idle"]
    /\ set_value = [t \in TaskIds |-> GaugeDefault]
    /\ sets = MaxEvents
    /\ get_pc = "idle"
    /\ get_secs = 0
    /\ gauge_value = <<>>
    /\ recent = {}
    /\ written = {}

\* A set that leaves the atomic as it was.
SetKept(old, value) == old

\* Gauge::set: self.value.swap(value, Relaxed), the atomic afterwards.
Set(old, value) == value

\* x.set(f) of a scalar gauge: one swap of the atomic.
GaugeSet(t, v) ==
    /\ gauge_kind = "scalar"
    /\ set_pc[t] = "idle" /\ sets > 0
    /\ gauge' = <<Set(gauge[1], v), gauge[2]>>
    /\ sets' = sets - 1
    /\ recent' = {<<v, 0>>}
    /\ written' = written \cup {<<v, 0>>}
    /\ UNCHANGED <<gauge_rest, gauge_kind, set_pc, set_value, get_pc, get_secs, gauge_value>>

\* sec.set(f.as_secs()) of a duration gauge, the first of its two swaps.
DurationSetSecs(t, v) ==
    /\ gauge_kind = "duration"
    /\ set_pc[t] = "idle" /\ sets > 0
    /\ gauge' = <<Set(gauge[1], v), gauge[2]>>
    /\ set_pc' = [set_pc EXCEPT ![t] = "nanos"]
    /\ set_value' = [set_value EXCEPT ![t] = <<v, v>>]
    /\ sets' = sets - 1
    /\ recent' = {}
    /\ written' = written \cup {<<v, v>>}
    /\ UNCHANGED <<gauge_rest, gauge_kind, get_pc, get_secs, gauge_value>>

\* nanos.set(f.subsec_nanos()), after which the update returns.
DurationSetNanos(t) ==
    /\ set_pc[t] = "nanos"
    /\ gauge' = <<gauge[1], Set(gauge[2], set_value[t][2])>>
    /\ set_pc' = [set_pc EXCEPT ![t] = "idle"]
    /\ set_value' = [set_value EXCEPT ![t] = GaugeDefault]
    /\ recent' = recent \cup {set_value[t]}
    /\ UNCHANGED <<gauge_rest, gauge_kind, sets, get_pc, get_secs, gauge_value, written>>

\* Metric::value of a scalar gauge: one load.
GaugeGet ==
    /\ gauge_kind = "scalar"
    /\ gauge_value' = gauge
    /\ UNCHANGED <<gauge_rest, gauge_kind, gauge, set_pc, set_value, sets, get_pc, get_secs,
                   recent, written>>

\* x.0.get(), the first load of Duration::new(x.0.get(), x.1.get())
DurationGetSecs ==
    /\ gauge_kind = "duration"
    /\ get_pc = "idle"
    /\ get_secs' = gauge[1]
    /\ get_pc' = "nanos"
    /\ UNCHANGED <<gauge_rest, gauge_kind, gauge, set_pc, set_value, sets, gauge_value,
                   recent, written>>

\* x.1.get() and Duration::new
DurationGetNanos ==
    /\ get_pc = "nanos"
    /\ gauge_value' = <<get_secs, gauge[2]>>
    /\ get_pc' = "idle"
    /\ get_secs' = 0
    /\ UNCHANGED <<gauge_rest, gauge_kind, gauge, set_pc, set_value, sets, recent, written>>

GaugeNext ==
    \/ \E t \in TaskIds, v \in 1..MaxAmount : GaugeSet(t, v)
    \/ \E t \in TaskIds, v \in 1..MaxAmount : DurationSetSecs(t, v)
    \/ \E t \in TaskIds : DurationSetNanos(t)
    \/ GaugeGet
    \/ DurationGetSecs
    \/ DurationGetNanos

SpecGauge == GaugeInit /\ [][GaugeNext]_vars

\* ------------------------------------------------------------------ tui
\* run_app and the App it owns.  The events of a batch are handled one after
\* the other in the order received and a break discards the rest, so the
\* batches are not modelled: tui_rx holds what is still to be handled.
\* Executors are named by their position, scenarios by theirs.
MaxSent == MaxEvents + 1

TuiInit ==
    /\ ExecIdle
    /\ RunIdle
    /\ MetIdle
    /\ HistIdle
    /\ GaugeIdle
    /\ TuiIdle
    /\ VisitIdle

\* Event: key input, Tick, and the messages of the tracing layer.
Events ==
    {[kind |-> k, name |-> 0, duration |-> 0] : k \in {"Quit", "Up", "Down", "Tick", "End"}}
    \cup {[kind |-> "TaskTime", name |-> e, duration |-> d] :
            e \in 1..MaxExecutors, d \in 0..MaxAmount}
    \cup {[kind |-> "ScenarioChanged", name |-> s, duration |-> 0] : s \in 1..MaxScenarios}

\* The forwarding and input threads: tx.send(event).
TuiSend(event) ==
    /\ tui_pc = "running"
    /\ Len(taken) + Len(tui_rx) < MaxSent
    /\ tui_rx' = Append(tui_rx, event)
    /\ UNCHANGED <<tui_rest, app, tui_pc, taken, times>>

\* Scenario::update, the TaskTime arm on the executor found.
UpdateExec(exec, duration) ==
    [task_max_time |-> IF duration > exec.task_max_time THEN duration ELSE exec.task_max_time,
     task_min_time |-> IF exec.task_min_time = 0
                       THEN duration
                       ELSE IF duration < exec.task_min_time THEN duration
                            ELSE exec.task_min_time,
     task_total_time |-> exec.task_total_time + duration]

\* The executors of the current scenario.
CurrentExecs(a) == a.scenarios[a.current_scenario + 1]

\* The match of run_app on one event: the App afterwards.
Applied(a, event) ==
    CASE event.kind = "Up" ->
           [a EXCEPT !.current_exec =
                IF a.current_exec + 1 < Len(CurrentExecs(a)) - 1
                THEN a.current_exec + 1 ELSE Len(CurrentExecs(a)) - 1]
      [] event.kind = "Down" ->
           [a EXCEPT !.current_exec = IF a.current_exec = 0 THEN 0 ELSE a.current_exec - 1]
      [] event.kind = "ScenarioChanged" ->
           [a EXCEPT !.current_scenario = event.name - 1]
      [] event.kind = "TaskTime" /\ event.name <= Len(CurrentExecs(a)) ->
           [a EXCEPT !.scenarios[a.current_scenario + 1][event.name] =
                UpdateExec(@, event.duration)]
      [] OTHER -> a

\* The events that only Ctrl-q/Ctrl-c leave the loop on.
BreaksOnQuit(event) == event.kind = "Quit"

\* break 'a: on Ctrl-q/Ctrl-c and on Message::End
Breaks(event) == event.kind \in {"Quit", "End"}

\* terminal.draw(ui), on Tick and on End: ui selects app.current_exec().
Draws(event) == event.kind \in {"Tick", "End"}

\* One turn of the for loop of run_app.
Handle ==
    LET event == Head(tui_rx) IN
    /\ tui_pc = "running"
    /\ tui_rx # <<>>
    /\ tui_rx' = Tail(tui_rx)
    /\ taken' = Append(taken, event)
    /\ app' = Applied(app, event)
    /\ times' = IF event.kind = "TaskTime" /\ event.name <= Len(CurrentExecs(app))
                THEN [times EXCEPT ![app.current_scenario + 1][event.name] =
                          Append(@, event.duration)]
                ELSE times
    /\ tui_pc' = IF Draws(event) /\ app.current_exec >= Len(CurrentExecs(app))
                 THEN "panicked"
                 ELSE IF Breaks(event) THEN "returned" ELSE "running"
    /\ UNCHANGED <<tui_rest>>

TuiNext ==
    \/ \E event \in Events : TuiSend(event)
    \/ Handle

SpecTui == TuiInit /\ [][TuiNext]_vars

\* ---------------------------------------------------------------- Visit
\* impl Visit for TaskEvent: tracing calls one record_* method per field of
\* the event, in the order of the fields, chosen by the type of the field.
\* bool, i128 and the other types without a method of their own go to
\* record_debug.  The content of a field is a number of 1..MaxAmount.
FieldTypes == {"debug", "str", "i64", "u64", "f64", "u128"}

Fields ==
    {[name |-> n, type |-> t, content |-> c] :
        n \in {"value", "label"}, t \in FieldTypes, c \in 1..MaxAmount}

\* The Value a record_* method builds from the content of a field.
ValueOf(field) ==
    CASE field.type \in {"debug", "str"} -> <<"String", field.content>>
      [] field.type = "i64" -> <<"Number", field.content>>
      [] field.type = "u64" -> <<"UnsignedNumber", field.content>>
      [] field.type = "f64" -> <<"Float", field.content>>
      [] field.type = "u128" -> <<"Duration", field.content>>

\* An event with one inherited attribute or none, and up to MaxEvents fields.
VisitInit ==
    /\ ExecIdle
    /\ RunIdle
    /\ MetIdle
    /\ HistIdle
    /\ GaugeIdle
    /\ TuiIdle
    /\ \E inherited \in {<<>>, <<<<"span", <<"String", 1>>>>>>} :
       \E q \in UNION {[1..k -> Fields] : k \in 1..MaxEvents} :
           visit = NewEvent(inherited, <<"UnsignedNumber", 0>>, q)

\* record_debug and record_str push the field; the numeric methods match on
\* field.name(): "value" becomes the measurement, any other name is pushed.
Record(v, field) ==
    IF field.type \notin {"debug", "str"} /\ field.name = "value"
    THEN [v EXCEPT !.value = ValueOf(field), !.recorded = @ + 1]
    ELSE [v EXCEPT !.attributes = Append(@, <<field.name, ValueOf(field)>>),
                   !.recorded = @ + 1]

\* The visitor records the next field of the event.
Visit ==
    /\ visit.recorded < Len(visit.fields)
    /\ visit' = Record(visit, visit.fields[visit.recorded + 1])
    /\ UNCHANGED visit_rest

SpecVisit == VisitInit /\ [][Visit]_vars

\* ===================================================================== claims

\* C1: in every executor a user has at most one call in flight, and in the
\* arrival-rate executors a user's lock is held exactly while its call is in
\* flight, so a user is picked only while its lock is free.
C1_OneCallPerUser ==
    \A u \in UserIds :
        /\ inflight[u] <= 1
        /\ (inflight[u] = 1) <=> (task[u] = "call")
        /\ kind \in ArrivalKinds => (lock[u] <=> inflight[u] = 1)
        /\ kind \notin ArrivalKinds => ~lock[u]

\* The cyclic iterator stands on a user whose call is still in flight while
\* the window wants another start.
C1_Witness ==
    /\ kind \in ArrivalKinds /\ epc = "select" /\ ArrLoopCond
    /\ users >= 1 /\ lock[user_iter] /\ inflight[user_iter] = 1

\* C2: a Shared executor with N >= 1 users and I iterations that ended before
\* its deadline and saw no error has executed between I and I + N - 1
\* iterations.
C2_SharedCompletesIterations ==
    (/\ kind = "Shared" /\ epc = "done" /\ cfg.users >= 1
     /\ clock < end_time
     /\ chan["GenericError"] = 0 /\ chan["TerminationError"] = 0)
    => /\ cfg.iterations <= completed
       /\ completed <= cfg.iterations + cfg.users - 1

\* C3: a PerUser executor that ran to its end executed exactly N * I
\* iterations, I per user, one task span and one outcome sent per iteration,
\* whatever the outcomes were.
C3_PerUserExact ==
    (kind = "PerUser" /\ epc = "done")
    => /\ started = cfg.users * cfg.iterations
       /\ completed = cfg.users * cfg.iterations
       /\ spans = cfg.users * cfg.iterations
       /\ Sent = cfg.users * cfg.iterations
       /\ \A u \in 1..cfg.users : iter_idx[u] = cfg.iterations /\ task[u] = "done"

C3_Witness ==
    /\ kind = "PerUser" /\ epc = "done"
    /\ cfg.users = MaxUsers /\ cfg.iterations = MaxIterations
    /\ chan["TerminationError"] >= 1 /\ chan["GenericError"] >= 1 /\ chan["Ok"] >= 1

\* C6: an arrival-rate executor never has more than max_users operations in
\* flight; stated for the configurations whose pool starts within the limit
\* (1 <= max_users and pre_allocate_users <= max_users).
C6_InFlightAtMostMaxUsers ==
    (/\ kind \in ArrivalKinds
     /\ cfg.max_users >= 1 /\ cfg.pre_allocate_users <= cfg.max_users)
    => InFlightTotal(inflight) <= cfg.max_users

\* C7: the pool grows by exactly min(rate - started, max_users - current users),
\* so from pre_allocate <= max_users it never exceeds max_users.
C7_GrowthCappedAtMaxUsers ==
    [][/\ (/\ kind \in ArrivalKinds /\ epc = "grow" /\ epc' = "pace"
           /\ current_rate < CurStage.rate /\ users < cfg.max_users)
          => users' = users + Min2(CurStage.rate - current_rate, cfg.max_users - users)
       /\ (kind \in ArrivalKinds /\ cfg.pre_allocate_users <= cfg.max_users)
          => users' <= cfg.max_users]_vars

\* The pool sizes RampingUser reaches over a list of stage targets: the growth
\* step of the stage loop folded over the targets.
RampPoolSizes(len, targets) ==
    LET RECURSIVE F(_, _)
        F(n, k) == IF k > Len(targets) THEN <<>>
                   ELSE LET g == RampGrow(n, targets[k]) IN <<g>> \o F(g, k + 1)
    IN F(len, 1)

\* max(pre_allocate, targets of the stages 1..k)
MaxTargetUpTo(k) ==
    LET RECURSIVE M(_)
        M(j) == IF j = 0 THEN cfg.pre_allocate_users ELSE Max2(M(j - 1), cfg.stages[j].target)
    IN M(k)

\* C8: the RampingUser pool never shrinks and during stage k it holds
\* max(pre_allocate, targets of the stages 1..k) users; with pre_allocate 1
\* and targets 1, 5, 3 the pool sizes are 1, 5, 5.
C8_RampPoolIsRunningMax ==
    kind = "RampingUser"
    => /\ \A k \in 1..Len(pool_at_stage) :
            /\ pool_at_stage[k] = MaxTargetUpTo(k)
            /\ k > 1 => pool_at_stage[k - 1] <= pool_at_stage[k]
       /\ Len(pool_at_stage) >= 1 => users = pool_at_stage[Len(pool_at_stage)]
       /\ Len(pool_at_stage) = 0 => users \in {0, cfg.pre_allocate_users}
       /\ RampPoolSizes(1, <<1, 5, 3>>) = <<1, 5, 5>>

\* A later stage asks for fewer users than the pool already holds.
C8_Witness ==
    /\ kind = "RampingUser" /\ Len(pool_at_stage) = 2 /\ epc = "collect"
    /\ cfg.stages[2].target < cfg.stages[1].target
    /\ cfg.pre_allocate_users < cfg.stages[1].target
    /\ users = cfg.stages[1].target

\* C9: Constant spawns one driver per user; a driver starts an iteration at
\* its first poll and at every return of its call while now < deadline, and
\* stops instead once the deadline is reached; the executor task finishes only
\* when every driver has stopped.
C9_ConstantDrivers ==
    [][kind = "Constant" /\ epc' # "cancelled"
       => /\ epc \in {"collect", "done"}
             => \A u \in UserIds : (task[u] # "none") <=> (u <= cfg.users)
          /\ \A u \in UserIds :
                task[u] = "spawned" /\ task'[u] # "spawned"
                => task'[u] = (IF clock < end_time THEN "call" ELSE "done")
          /\ completed' # completed
             => IF clock < end_time
                THEN task' = task /\ (started < CountCap => started' = started + 1)
                ELSE /\ started' = started
                     /\ \E u \in UserIds :
                           /\ task[u] = "call" /\ task'[u] = "done"
                           /\ \A v \in UserIds \ {u} : task'[v] = task[v]
          /\ started' # started => clock < end_time
          /\ epc' = "done" => \A u \in 1..cfg.users : task[u] = "done"]_vars

\* Both drivers are in a call, one of them not its first, before the deadline.
C9_Witness ==
    /\ kind = "Constant" /\ cfg.users = MaxUsers /\ clock < end_time
    /\ \A u \in 1..cfg.users : task[u] = "call"
    /\ completed >= 1

\* A driver stopped at the deadline while another call is still in flight.
C9_WitnessDeadline ==
    /\ kind = "Constant" /\ cfg.users = MaxUsers /\ clock >= end_time /\ cfg.duration >= 1
    /\ task[1] = "done" /\ task[2] = "call" /\ completed >= 1

\* C4: once a TerminationError outcome is in the merged channel the runner
\* never moves to another scenario and never takes the path without
\* cancellation; it ends the scenario with the scope cancelled, once the
\* cancelled scope has been dropped no executor starts an iteration, and the
\* run ends only after the executors of the scenario are dropped.
C4_TerminationStopsRun ==
    [][LET term == "TerminationError" \in (user_result_rx \cup results) IN
       /\ term => /\ scenario_index' = scenario_index
                  /\ rpc' \notin {"scenario", "init", "collect"}
       /\ term /\ rpc' \in {"drop", "exit", "returned"}
          => has_user_terminated' /\ scope' = "cancelled"
       /\ term /\ rpc' \in {"exit", "returned"}
          => \A e \in ExecIds : executors'[e] \in {"none", "dropped"}
       /\ scope = "cancelled" /\ rpc \in {"drop", "exit", "returned"}
          => x_idx' = x_idx /\ x_task' = x_task]_vars

\* The run returned after a TerminationError in the first of its scenarios,
\* with an executor whose driver was cancelled inside its loop.
C4_Witness ==
    /\ rpc = "returned" /\ "TerminationError" \in results /\ scope = "cancelled"
    /\ Len(scenarios) >= 2 /\ scenario_index = 1
    /\ \E e \in ExecIds : executors[e] = "dropped" /\ x_task[e] = "cancelled"

\* C5: outcomes with a GenericError and no TerminationError among them do not
\* stop the execution: the runner does not report a termination and does not
\* cancel the scope.
C5_GenericErrorContinues ==
    ("GenericError" \in results /\ "TerminationError" \notin results)
    => ~has_user_terminated /\ scope # "cancelled"

\* C10: runner_exit is emitted once, as run() returns, when every executor
\* that was started has ended and been dropped, and no executor does
\* anything after it.
C10_RunnerExitOnceAtEnd ==
    [][/\ runner_exit' <= 1
       /\ (runner_exit' = 1) <=> (rpc' = "returned")
       /\ runner_exit' = 1
          => \A e \in ExecIds : /\ executors'[e] \in {"none", "dropped"}
                                /\ x_task'[e] \notin {"spawned", "call"}
       /\ runner_exit = 1 => UNCHANGED <<executors, x_task, x_idx, user_result_rx>>]_vars

\* The event was emitted after one executor finished and another was cancelled.
C10_Witness ==
    /\ runner_exit = 1 /\ Len(Providers) = 2
    /\ executors[1] = "dropped" /\ executors[2] = "dropped"
    /\ x_task[1] = "done" /\ x_task[2] = "cancelled"

\* C11: while any executor of scenario s is instantiated, spawned or running,
\* and whenever an executor is instantiated or spawned or an iteration starts,
\* the span with id s is the scenario span that is entered.
C11_ScenarioSpanFirst ==
    [][/\ (\E e \in ExecIds : executors'[e] \notin {"none", "dropped"})
          => scenario_span' = scenario_index' /\ scenario_index' >= 1
       /\ (\E e \in ExecIds : executors[e] # executors'[e]
                               /\ executors'[e] \in {"built", "spawned", "running"})
          => scenario_span = scenario_index /\ scenario_index >= 1
       /\ (\E e \in ExecIds : x_idx'[e] > x_idx[e])
          => scenario_span = scenario_index /\ scenario_index >= 1]_vars

\* An iteration of the second scenario is in flight under the span with id 2.
C11_Witness ==
    /\ scenario_index = 2 /\ scenario_span = 2
    /\ \E e \in ExecIds : executors[e] = "running" /\ x_task[e] = "call"

\* C12: the runner moves from scenario k to scenario k + 1 only, and only
\* when every executor of k has been dropped and none of its tasks runs; no
\* executor is instantiated or spawned while one of another scenario is left;
\* after a termination the run ends with the same cleanup done.
C12_ScenariosInSequence ==
    [][/\ scenario_index' # scenario_index
          => /\ scenario_index' = scenario_index + 1
             /\ \A e \in ExecIds : /\ executors'[e] \in {"none", "dropped"}
                                   /\ x_task'[e] \notin {"spawned", "call"}
       /\ rpc = "scenario"
          => \A e \in ExecIds : executors[e] \in {"none", "dropped"}
       /\ rpc' \in {"exit", "returned"}
          => \A e \in ExecIds : /\ executors'[e] \in {"none", "dropped"}
                                /\ x_task'[e] \notin {"spawned", "call"}
       /\ (\E e \in ExecIds : executors[e] # executors'[e]
                               /\ executors'[e] \in {"built", "spawned"})
          => \A d \in ExecIds : executors[d] # "dropped"]_vars

\* The executors of the second scenario are being spawned.
C12_Witness ==
    /\ scenario_index = 2 /\ rpc = "spawn"
    /\ \E e \in ExecIds : executors[e] = "spawned"

\* C13: a Once executor starts at most one call, in one task span, and sends
\* at most one outcome; when its task has finished it has made exactly one
\* call and sent exactly one outcome, the result of that call.
C13_OnceExactlyOnce ==
    kind = "Once"
    => /\ started <= 1 /\ spans <= 1 /\ completed <= 1 /\ Sent <= 1
       /\ Sent = completed /\ spans = started
       /\ epc = "done"
          => /\ started = 1 /\ spans = 1 /\ completed = 1 /\ Sent = 1
             /\ task[1] = "done" /\ InFlightTotal(inflight) = 0

\* The task of a Once executor finished after its user returned Ok.
C13_Witness ==
    kind = "Once" /\ epc = "done" /\ chan["Ok"] = 1 /\ spans = 1

\* C14: once a user operation has panicked in the current scenario the runner
\* does not find the outcome channel closed without a termination, and it
\* does not move on to another scenario.
C14_PanicTerminates ==
    [][(\E e \in ExecIds : x_task[e] = "panicked")
       => /\ rpc' # "collect"
          /\ scenario_index' = scenario_index]_vars

\* C15: a failure of the user builder is fatal for the plan: once the builder
\* has failed, in run() or in an executor task, the failed plan starts no
\* further iteration, the runner does not await the scope as after a plan that
\* completed, and the run does not go on to the next scenario.
C15_BuilderFailureFatal ==
    [][(rpc = "panicked" \/ \E e \in ExecIds : executors[e] = "build_panicked")
       => /\ \A e \in ExecIds : executors[e] = "build_panicked" => x_idx'[e] = x_idx[e]
          /\ rpc' # "collect"
          /\ scenario_index' = scenario_index]_vars

\* The e-th plan has its users built: at DataExecutor::new for the executors
\* that own their users, in the task for the ramping ones.
UsersBuilt(e) ==
    \/ executors[e] \in {"built", "spawned"} /\ BuildsAtNew(Providers[e].kind)
    \/ executors[e] \in {"running", "finished", "cancelled"} /\ x_task[e] # "none"

\* C16: every plan has a data store of its own that holds only the plan's
\* initializers, run in their configured order; from the moment the plan's
\* executor exists, so before any of its users is built and as long as the
\* plan lives, the store holds all of them and nothing else, so no
\* initializer runs on it any more.
C16_StoreInitialisedBeforeUsers ==
    \A e \in ExecIds :
        /\ Len(store[e]) <= e
        /\ \A j \in 1..Len(store[e]) : store[e][j] = <<e, j>>
        /\ e > Len(Providers) => store[e] = <<>>
        /\ executors[e] \in {"built", "spawned", "running", "finished", "cancelled",
                              "build_panicked"}
           => Len(store[e]) = e
        /\ UsersBuilt(e) => Len(store[e]) = e

\* The second plan of a scenario runs its user after both of its initializers.
C16_Witness ==
    /\ executors[2] = "running" /\ x_task[2] = "call"
    /\ store[2] = <<<<2, 1>>, <<2, 2>>>> /\ store[1] = <<<<1, 1>>>>

\* C17: in an arrival-rate executor every start of an operation is counted by
\* current_rate, which is reset only as a window begins and never exceeds the
\* count of the stage's rate; and a window of a stage begins only when the
\* window before it has run out.  So no window has more than `count` starts.
C17_AtMostCountPerWindow ==
    [][(kind \in ArrivalKinds /\ epc' # "cancelled")
       => /\ (InFlightTotal(inflight') > InFlightTotal(inflight))
             => /\ epc = "select"
                /\ InFlightTotal(inflight') = InFlightTotal(inflight) + 1
                /\ current_rate' = current_rate + 1
                /\ current_rate' <= CurStage.rate
          /\ (current_rate' # current_rate)
             => \/ InFlightTotal(inflight') = InFlightTotal(inflight) + 1
                \/ epc = "window" /\ current_rate' = 0
          /\ (epc = "window") => (clock >= next_rate_check_time)]_vars

\* A window has started as many operations as its rate allows while the pool
\* still has free users, and a call of the window is in flight.
C17_Witness ==
    /\ kind \in ArrivalKinds /\ epc = "select"
    /\ current_rate = CurStage.rate /\ current_rate = MaxRate
    /\ users > current_rate
    /\ \E u \in UserIds : task[u] = "call"
    /\ \E u \in 1..users : ~lock[u]

\* C18: after scope.cancel(), when the runner comes to drop the executors and
\* the data stores of the scenario, and ever after, no executor task and no
\* driver of the scenario is running; and an executor task that was cancelled
\* starts no iteration: an iteration starts only in a running executor.
C18_NothingOutlivesCancelledScope ==
    [][/\ (scope = "cancelled" /\ rpc \in {"drop", "exit", "returned"})
          => \A e \in ExecIds : /\ executors[e] \notin {"spawned", "running"}
                                /\ x_task[e] \notin {"spawned", "call"}
       /\ \A e \in ExecIds :
             /\ (executors[e] = "cancelled") => (x_idx'[e] = x_idx[e] /\ x_task'[e] = x_task[e])
             /\ (x_idx'[e] > x_idx[e]) => (executors[e] = "running" /\ executors'[e] = "running")]_vars

\* The runner is about to drop the executors of a cancelled scenario, one of
\* which was cancelled while its driver was in its loop.
C18_Witness ==
    /\ scope = "cancelled" /\ rpc = "drop"
    /\ \E e \in ExecIds : executors[e] = "cancelled" /\ x_task[e] = "cancelled"
    /\ \A e \in 1..Len(Providers) : store[e] = Modifiers(e)

C20_CounterSumsAndGrows ==
    [][/\ (upd_pc' = NoUpdates) => (CounterValue(inner') = added')
       /\ seen' >= seen]_vars

\* The percentiles of all the values observed, by the rank rule of the buffer.
PercentilesOf(q) ==
    <<BufferPercentile(q, 1, 2), BufferPercentile(q, 9, 10),
      BufferPercentile(q, 95, 100), BufferPercentile(q, 99, 100)>>

\* C21: the percentiles reported by value() are those of all the values
\* observed so far, merged or still in the buffer.
C21_PercentilesOverAll ==
    hist_value # <<>> => hist_value = PercentilesOf(observed)

RECURSIVE MinOf(_)
MinOf(q) ==
    IF Len(q) = 1 THEN q[1]
    ELSE LET m == MinOf(Tail(q)) IN IF q[1] < m THEN q[1] ELSE m

RECURSIVE MaxOf(_)
MaxOf(q) ==
    IF Len(q) = 1 THEN q[1]
    ELSE LET m == MaxOf(Tail(q)) IN IF q[1] > m THEN q[1] ELSE m

RECURSIVE SumOf(_)
SumOf(q) == IF q = <<>> THEN 0 ELSE q[1] + SumOf(Tail(q))

\* C23: after any non-empty sequence of TaskTime messages for an executor
\* its task_max_time is the maximum, its task_min_time the minimum and its
\* task_total_time the sum of the durations received, zero durations
\* included.
C23_TaskTimes ==
    \A s \in 1..MaxScenarios : \A e \in 1..s :
        (times[s][e] # <<>>)
        => /\ app.scenarios[s][e].task_max_time = MaxOf(times[s][e])
           /\ app.scenarios[s][e].task_min_time = MinOf(times[s][e])
           /\ app.scenarios[s][e].task_total_time = SumOf(times[s][e])

\* The App after run_app has handled the events of q, in order.
RECURSIVE Replay(_, _)
Replay(a, q) == IF q = <<>> THEN a ELSE Replay(Applied(a, Head(q)), Tail(q))

\* C24: run_app leaves its loop when it handles End: nothing is handled after
\* an End, the loop is over once End has been handled, and the App is the
\* result of applying every event handled so far in the order received.
C24_EndTerminates ==
    /\ \A i \in 1..(Len(taken) - 1) : taken[i].kind # "End"
    /\ (taken # <<>> /\ taken[Len(taken)].kind = "End") => (tui_pc # "running")
    /\ app = Replay(NewApp, taken)

\* End was handled after a task time, with an event still unhandled behind it.
C24_Witness ==
    /\ Len(taken) >= 2
    /\ taken[Len(taken)].kind = "End"
    /\ taken[1].kind = "TaskTime" /\ taken[1].duration > 0
    /\ tui_rx # <<>>
    /\ tui_pc = "returned"

\* C25: when the arrival-rate executor is selecting users while every user
\* of the pool is busy and fewer than rate operations have been started in
\* the window, its next step leaves the selection loop for the collection of
\* the batch; it does not go on trying the busy users.
C25_FallsThroughWhenAllBusy ==
    (/\ kind \in ArrivalKinds /\ epc = "select"
     /\ now < next_rate_check_time /\ now < end_time
     /\ current_rate < CurStage.rate
     /\ users > 0
     /\ \A u \in 1..users : lock[u])
    => (ENABLED ArrLoopExit /\ ~ENABLED ArrTryLock)

\* C26: during a stage of a RampingUser executor every user allocated so far
\* has a driver, also when the stage's target is below the pool size; before
\* the deadline every driver that has been polled has a call in flight; and
\* the pool of a stage is never smaller than the pool of the stage before.
C26_RampEveryUserRuns ==
    (kind = "RampingUser" /\ epc = "collect")
    => /\ \A u \in UserIds : (task[u] # "none") <=> (u <= users)
       /\ (clock < end_time) => \A u \in 1..users : task[u] \in {"spawned", "call"}
       /\ users = pool_at_stage[stage]
       /\ users >= CurStage.target
       /\ (stage > 1) => (users >= pool_at_stage[stage - 1])

\* A later stage with a target below the pool size, every user in a call.
C26_Witness ==
    /\ kind = "RampingUser" /\ epc = "collect"
    /\ stage = 2
    /\ users >= 2
    /\ CurStage.target < users
    /\ \A u \in 1..users : task[u] = "call"

\* No driver or operation is running and no call is in flight.
Quiet == \A u \in UserIds : ~Running(u) /\ inflight[u] = 0

\* C27: in RampingUser and in the arrival-rate executors the stages are run
\* in configuration order and do not overlap: the executor moves from a
\* stage to the next one only, and only when every iteration started so far
\* has completed, and users are added to the pool only then too.
C27_StagesInOrder ==
    [][(kind \in {"RampingUser"} \cup ArrivalKinds)
       => /\ (stage' # stage) => (stage' = stage + 1 /\ Quiet)
          /\ (users' # users) => Quiet]_vars

\* The second stage of a RampingUser executor runs on a pool grown for it,
\* after a first stage that had users and time to run them.
C27_Witness ==
    /\ kind = "RampingUser"
    /\ stage = 2
    /\ cfg.stages[1].duration >= 1
    /\ pool_at_stage[1] >= 1
    /\ users > pool_at_stage[1]
    /\ \E u \in 1..users : task[u] = "call"

\* C28: in Constant, Shared and RampingUser the deadline is tested before an
\* iteration only: a driver starts an iteration only before the deadline; a
\* call in flight ends only by returning, whenever that is, its outcome is
\* then sent and the driver ends or goes on; and the executor or the stage
\* ends only when no driver is running and no call is in flight.
C28_DeadlineBeforeIteration ==
    [][(kind \in {"Constant", "Shared", "RampingUser"} /\ epc' # "cancelled")
       => /\ \A u \in UserIds :
               /\ (task[u] = "spawned" /\ task'[u] = "call") => (clock < end_time)
               /\ (task[u] = "call" /\ task'[u] # "call")
                  => /\ task'[u] = "done"
                     /\ inflight'[u] = 0
                     /\ (Sent < CountCap) => (Sent' = Sent + 1)
          /\ (started' # started) => (clock < end_time)
          /\ (epc = "collect" /\ epc' # "collect") => Quiet]_vars

\* The deadline has passed with a call still in flight while another driver
\* has already ended.
C28_Witness ==
    /\ kind \in {"Constant", "RampingUser"}
    /\ epc = "collect"
    /\ clock >= end_time
    /\ \E u \in 1..users : task[u] = "call" /\ inflight[u] = 1
    /\ \E u \in 1..users : task[u] = "done"

C30_WindowStartsIdle ==
    (kind \in ArrivalKinds /\ epc \in {"grow", "pace", "sleep", "while", "stage", "window", "now"})
    => \A u \in UserIds : ~Running(u) /\ inflight[u] = 0 /\ ~lock[u]

\* A window begins after a window in which operations were started.
C30_Witness ==
    /\ kind \in ArrivalKinds /\ epc = "window"
    /\ current_rate >= 1
    /\ users >= 1
    /\ \A u \in UserIds : ~lock[u]

\* C31: within an arrival-rate stage a window begins only when the deadline
\* of the window before it has been reached, so the starts of consecutive
\* windows are at least the pacing window apart (when a window is about to
\* begin, next_rate_check_time is still the deadline of the window before,
\* and 0 for the first window of a stage).
C31_WindowsPaced ==
    (kind \in ArrivalKinds /\ epc = "window") => (clock >= next_rate_check_time)

\* A second window of a stage is about to begin at the deadline of the first,
\* in which operations were started.
C31_Witness ==
    /\ kind \in ArrivalKinds /\ epc = "window"
    /\ CurStage.time_unit >= 1
    /\ next_rate_check_time = CurStage.time_unit
    /\ clock = next_rate_check_time
    /\ current_rate >= 1

\* C32: after every observe the buffer of the histogram holds fewer values
\* than the flush threshold, and the running sum is the sum of all the values
\* observed, whether or not the buffer has been taken.
C32_BufferBelowThreshold ==
    /\ Len(hist.values) < FlushLen
    /\ hist.sum = SumOf(observed)

\* The buffer has been taken once and holds a value observed since.
C32_Witness ==
    /\ hist.tdigest # <<>>
    /\ hist.values # <<>>
    /\ Len(observed) > FlushLen
    /\ hist.sum >= FlushLen + 1

\* The attributes the fields of q add: those not named value, in order.
RECURSIVE AttributesOf(_)
AttributesOf(q) ==
    IF q = <<>> THEN <<>>
    ELSE (IF Head(q).name = "value" THEN <<>> ELSE <<<<Head(q).name, ValueOf(Head(q))>>>>)
         \o AttributesOf(Tail(q))

\* The measurement after the fields of q: that of the last field named value.
RECURSIVE MeasurementOf(_, _)
MeasurementOf(initial, q) ==
    IF q = <<>> THEN initial
    ELSE MeasurementOf(IF Head(q).name = "value" THEN ValueOf(Head(q)) ELSE initial, Tail(q))

\* C33: after the fields of a metric event have been visited, the attributes
\* of its key are the inherited attributes followed by the fields not named
\* value, in visit order, and the measurement is that of the field named
\* value, whatever the type of the field.
C33_ValueIsMeasurement ==
    LET done == SubSeq(visit.fields, 1, visit.recorded) IN
    /\ visit.attributes = visit.inherited \o AttributesOf(done)
    /\ visit.value = MeasurementOf(visit.initial, done)

\* C34: once an iteration of a scenario has produced a termination error no
\* further executor of the scenario is spawned: an executor whose delay has
\* not elapsed by then stays unspawned.
C34_NoSpawnAfterTermination ==
    [][("TerminationError" \in (user_result_rx \cup results))
       => \A e \in ExecIds : (executors[e] = "built") => (executors'[e] # "spawned")]_vars

\* C35: under every interleaving of the drivers' fetch_add on the shared
\* counter a Shared executor starts at most `iterations` iterations.
C35_SharedAtMostIterations ==
    (kind = "Shared") => (started <= cfg.iterations /\ spans <= cfg.iterations)

\* Two drivers have both taken a turn on the counter before the deadline and
\* the executor has ended.
C35_Witness ==
    /\ kind = "Shared" /\ epc = "done"
    /\ cfg.users >= 2 /\ cfg.iterations >= 1 /\ cfg.duration >= 1
    /\ iterations_completed >= SharedCounterInit(cfg.iterations) + 2

\* C36: in every users/users_max progress event of an executor the users
\* reported are at most the users_max reported.
C36_UsersAtMostMax ==
    (UsersEvent # <<>>) => (UsersEvent.users <= UsersEvent.users_max)

C38_EmptyPoolSelects ==
    (/\ kind \in ArrivalKinds
     /\ cfg.pre_allocate_users = 0 /\ cfg.max_users > 0
     /\ \A i \in 1..Len(cfg.stages) : cfg.stages[i].rate > 0)
    => (epc # "panicked")

\* C39: every value that value() returns for a duration gauge while other
\* tasks update it is the default or one of the durations written, never the
\* seconds of one write with the nanoseconds of another.
C39_DurationReadWhole ==
    (gauge_kind = "duration" /\ gauge_value # <<>>)
    => (gauge_value \in ({GaugeDefault} \cup written))

\* C40: after any sequence of Up/Down keys and ScenarioChanged messages
\* current_exec is a valid index into the executors of the current scenario.
C40_CurrentExecInRange ==
    0 <= app.current_exec /\ app.current_exec < Len(CurrentExecs(app))

====
